---- MODULE Spec2Model ----
(***************************************************************************)
(* Cross-repository PR linking, readiness evaluation and merge             *)
(* orchestration of codi-repo (lib/linker.ts, lib/github.ts), its marker   *)
(* codec, state store (lib/manifest.ts), PR creation flow                  *)
(* (commands/pr/create.ts) and sync batch (commands/sync.ts).  Each        *)
(* component has its own variables and its own specification; the          *)
(* variables of the other components stay at their idle values.            *)
(*                                                                         *)
(* Strings that the code parses (the anchor PR body, repository names)     *)
(* are sequences of one-character strings, so that the regular expression  *)
(* and the split/parseInt calls are computed, not assumed.                 *)
(***************************************************************************)
EXTENDS Integers, Sequences, FiniteSets, TLC

\* ------------------------------------------------------------------ bounds
\* Longest link list written into a marker of an initial anchor body.
MaxLinks == 2

\* Most reviews submitted on the pull request whose approval is evaluated.
MaxReviews == 3

\* Most pull requests one repository of the forge holds.
MaxPRs == 2

\* the most links the anchor body of a run with explicit promises holds
MaxQueries == 3

\* ------------------------------------------------------- string primitives
Digits == <<"0", "1", "2", "3", "4", "5", "6", "7", "8", "9">>

IsDigit(c) == \E d \in 1..10 : Digits[d] = c

DigitVal(c) == (CHOOSE d \in 1..10 : Digits[d] = c) - 1

\* JavaScript NaN, encoded as an integer no numeral of a modelled body denotes.
NaN == -1000000

IsWhite(c) == c \in {" ", "\n", "\t"}

\* s has p as a substring starting at position i
StartsWithAt(s, i, p) ==
    /\ i >= 1
    /\ i + Len(p) - 1 <= Len(s)
    /\ \A k \in 1..Len(p) : s[i + k - 1] = p[k]

\* position of the first occurrence of the character c in s, 0 when absent
IndexOf(s, c) ==
    IF \E i \in 1..Len(s) : s[i] = c
    THEN CHOOSE i \in 1..Len(s) : s[i] = c /\ \A j \in 1..(i - 1) : s[j] # c
    ELSE 0

\* String.prototype.split with a one-character separator
RECURSIVE Split(_, _)
Split(s, sep) ==
    LET i == IndexOf(s, sep)
    IN IF i = 0
       THEN <<s>>
       ELSE <<SubSeq(s, 1, i - 1)>> \o Split(SubSeq(s, i + 1, Len(s)), sep)

RECURSIVE SkipWhite(_)
SkipWhite(s) ==
    IF s # <<>> /\ IsWhite(Head(s)) THEN SkipWhite(Tail(s)) ELSE s

\* value of the longest prefix of digits of s, acc being the value so far
RECURSIVE DigitsValue(_, _)
DigitsValue(s, acc) ==
    IF s # <<>> /\ IsDigit(Head(s))
    THEN DigitsValue(Tail(s), acc * 10 + DigitVal(Head(s)))
    ELSE acc

\* parseInt(s, 10): leading white space, an optional sign, then the longest
\* run of digits; NaN when there is no digit there.  The argument is a list
\* of zero or one strings: the empty list is JavaScript's undefined.
ParseInt(optS) ==
    IF optS = <<>>
    THEN NaN
    ELSE LET t == SkipWhite(optS[1])
             neg == t # <<>> /\ Head(t) = "-"
             u == IF t # <<>> /\ Head(t) \in {"-", "+"} THEN Tail(t) ELSE t
         IN IF u = <<>> \/ ~IsDigit(Head(u))
            THEN NaN
            ELSE IF neg THEN 0 - DigitsValue(u, 0) ELSE DigitsValue(u, 0)

\* the text a template literal prints for a number
RECURSIVE NumToStr(_)
NumToStr(n) ==
    IF n = NaN THEN <<"N", "a", "N">>
    ELSE IF n < 0 THEN <<"-">> \o NumToStr(0 - n)
    ELSE IF n < 10 THEN <<Digits[n + 1]>>
    ELSE NumToStr(n \div 10) \o <<Digits[(n % 10) + 1]>>

\* Array.prototype.join with a one-character separator
RECURSIVE Join(_, _)
Join(parts, sep) ==
    IF parts = <<>> THEN <<>>
    ELSE IF Len(parts) = 1 THEN parts[1]
    ELSE parts[1] \o <<sep>> \o Join(Tail(parts), sep)

\* --------------------------------------------------- marker encode / decode
\* "<!-- codi-repo:links:"
MarkerPrefix ==
    <<"<", "!", "-", "-", " ", "c", "o", "d", "i", "-", "r", "e", "p", "o",
      ":", "l", "i", "n", "k", "s", ":">>

\* " -->"
MarkerSuffix == <<" ", "-", "-", ">">>

\* The lazy group (.+?) matched from position c of body: the lengths j >= 1
\* for which the j characters hold no line terminator and the suffix follows.
CaptureLens(body, c) ==
    { j \in 1..(Len(body) - c + 1) :
        /\ \A k \in c..(c + j - 1) : body[k] # "\n"
        /\ StartsWithAt(body, c + j, MarkerSuffix) }

\* start positions at which /<!-- codi-repo:links:(.+?) -->/ matches
MatchStarts(body) ==
    { i \in 1..Len(body) :
        /\ StartsWithAt(body, i, MarkerPrefix)
        /\ CaptureLens(body, i + Len(MarkerPrefix)) # {} }

SetMin(S) == CHOOSE x \in S : \A y \in S : x <= y

\* match[1] of body.match(...): the leftmost match, its group as short as
\* possible; a list of zero (no match) or one captured string
MarkerCapture(body) ==
    IF MatchStarts(body) = {}
    THEN <<>>
    ELSE LET c == SetMin(MatchStarts(body)) + Len(MarkerPrefix)
             j == SetMin(CaptureLens(body, c))
         IN <<SubSeq(body, c, c + j - 1)>>

\* one element of links.map(...): [repoName, numStr] = link.split('#')
ParseLink(link) ==
    LET parts == Split(link, "#")
    IN [repoName |-> parts[1],
        number |-> ParseInt(IF Len(parts) >= 2 THEN <<parts[2]>> ELSE <<>>)]

\* mutant: without a marker, the first "#number" of the text is taken
parseLinkedPRsFromBody_TextFallback(body) ==
    LET m == MarkerCapture(body)
        h == IndexOf(body, "#")
    IN IF m = <<>>
       THEN IF h = 0 \/ ParseInt(<<SubSeq(body, h + 1, Len(body))>>) = NaN
            THEN <<>>
            ELSE <<[repoName |-> <<>>,
                    number |-> ParseInt(<<SubSeq(body, h + 1, Len(body))>>)]>>
       ELSE LET links == Split(m[1], ",")
            IN [k \in 1..Len(links) |-> ParseLink(links[k])]

parseLinkedPRsFromBody(body) ==
    LET m == MarkerCapture(body)
    IN IF m = <<>>
       THEN <<>>
       ELSE LET links == Split(m[1], ",")
            IN [k \in 1..Len(links) |-> ParseLink(links[k])]

\* ------------------------------------------------------------ the workspace
\* "manifest": the literal the orchestrator reports the anchor PR under
ManifestLiteral == <<"m", "a", "n", "i", "f", "e", "s", "t">>

\* Names of the repositories the manifest lists.  The second one is itself
\* called "manifest", the hardest case for telling reports apart.
RepoA == <<"A">>

RepoB == ManifestLiteral

\* A repository name that the manifest does not list.
RepoX == <<"X">>

ManifestRepos == {RepoA, RepoB}

\* getRepoInfo: the handle of a manifest repository
RepoInfoOf(name) == [name |-> name, owner |-> "acme", repo |-> name]

\* repoMap.get(repoName): a list of zero (undefined) or one RepoInfo
RepoMapGet(repoName) ==
    IF repoName \in ManifestRepos THEN <<RepoInfoOf(repoName)>> ELSE <<>>

\* The anchor (manifest) pull request the commands are run on.
ManifestOwner == "acme"

ManifestRepo == <<"w", "s">>

ManifestPRNumber == 2

AnchorKey == <<ManifestOwner, ManifestRepo, ManifestPRNumber>>

KeyA == <<"acme", RepoA, 1>>

KeyB == <<"acme", RepoB, 2>>

\* The pull requests that exist on the forge.
PRKeys == {KeyA, KeyB, AnchorKey}

\* ---------------------------------------------------------------- the forge
\* What the forge stores of a pull request: its raw state and merged flag.
ForgePRStates ==
    { [state |-> "open", merged |-> FALSE],
      [state |-> "closed", merged |-> FALSE],
      [state |-> "closed", merged |-> TRUE] }

\* Review lists a listReviews call can return.
ReviewLists ==
    { <<>>, <<"APPROVED">>, <<"COMMENTED">>, <<"CHANGES_REQUESTED">>,
      <<"APPROVED", "CHANGES_REQUESTED">>, <<"CHANGES_REQUESTED", "APPROVED">> }

\* Combined status states of a head commit.
StatusStates == {"success", "failure", "pending"}

\* The forge's mergeable tri-state: a list of zero (null) or one boolean.
Mergeables == {<<TRUE>>, <<FALSE>>, <<>>}

\* ------------------------------------------------------- readiness evaluator
\* mutant: the latest review that approves or requests changes decides
isPullRequestApproved_LatestWins(reviews) ==
    LET decisive == { i \in 1..Len(reviews) :
                        reviews[i] \in {"APPROVED", "CHANGES_REQUESTED"} }
    IN /\ decisive # {}
       /\ reviews[CHOOSE i \in decisive : \A j \in decisive : j <= i] = "APPROVED"

\* isPullRequestApproved, on the review list the forge returned
isPullRequestApproved(reviews) ==
    LET hasApproval == \E i \in 1..Len(reviews) : reviews[i] = "APPROVED"
        hasChangesRequested ==
            \E i \in 1..Len(reviews) : reviews[i] = "CHANGES_REQUESTED"
    IN hasApproval /\ ~hasChangesRequested

\* mutant: the raw state is passed on
PRState_Raw(pr) == pr.state

\* the three-valued state of a pull request
PRState(pr) == IF pr.merged THEN "merged" ELSE pr.state

\* mutant: a mergeability the forge has not computed counts as mergeable
MergeableOrFalse_NullIsTrue(m) == m # <<FALSE>>

\* pr.mergeable ?? false
MergeableOrFalse(m) == IF m = <<>> THEN FALSE ELSE m[1]

\* getLinkedPRInfo, on what its three forge reads returned
getLinkedPRInfo(owner, repo, pullNumber, repoName, pr, reviews, checks, mergeable) ==
    [repoName |-> repoName,
     owner |-> owner,
     repo |-> repo,
     number |-> pullNumber,
     state |-> PRState(pr),
     approved |-> isPullRequestApproved(reviews),
     checksPass |-> (checks = "success"),
     mergeable |-> MergeableOrFalse(mergeable)]

\* mutant: the placeholder counts as an open, ready PR
Placeholder_Ready(repoName, number) ==
    [repoName |-> repoName, owner |-> "", repo |-> <<>>, number |-> number,
     state |-> "open", approved |-> TRUE, checksPass |-> TRUE, mergeable |-> TRUE]

\* the placeholder for a marker entry whose repository is not in the manifest
Placeholder(repoName, number) ==
    [repoName |-> repoName,
     owner |-> "",
     repo |-> <<>>,
     number |-> number,
     state |-> "closed",
     approved |-> FALSE,
     checksPass |-> FALSE,
     mergeable |-> FALSE]

\* mutant: the every(...) predicate forgets the mergeable flag
LinkedReady_NoMergeable(p) == p.approved /\ p.checksPass /\ p.state = "open"

\* mutant: the every(...) predicate does not look at the PR's state
LinkedReady_AnyState(p) == p.approved /\ p.checksPass /\ p.mergeable

\* the predicate of linkedPRs.every(...) in getManifestPRInfo
LinkedReady(p) == p.approved /\ p.checksPass /\ p.mergeable /\ p.state = "open"

\* mutant: readiness computed from the linked PRs alone
ReadyToMerge_IgnoresAnchor(state, linkedPRs) ==
    \A i \in 1..Len(linkedPRs) : LinkedReady(linkedPRs[i])

ReadyToMerge(state, linkedPRs) ==
    /\ state = "open"
    /\ \A i \in 1..Len(linkedPRs) : LinkedReady(linkedPRs[i])

\* the value getManifestPRInfo returns
ManifestPRInfo(pr, linkedPRs) ==
    [number |-> ManifestPRNumber,
     linkedPRs |-> linkedPRs,
     state |-> PRState(pr),
     readyToMerge |-> ReadyToMerge(PRState(pr), linkedPRs)]

\* ------------------------------------------------------ merge orchestration
\* the predicate of linkedPRs.find(...) in mergeAllLinkedPRs
NotReady(p) == ~p.approved \/ ~p.checksPass \/ ~p.mergeable \/ p.state # "open"

\* linkedPRs.find(NotReady): a list of zero (undefined) or one linked PR
RECURSIVE FindNotReady(_)
FindNotReady(linkedPRs) ==
    IF linkedPRs = <<>> THEN <<>>
    ELSE IF NotReady(Head(linkedPRs)) THEN <<Head(linkedPRs)>>
    ELSE FindNotReady(Tail(linkedPRs))

\* mutant: the reason is looked up with the checks ahead of the approval
NotReadyError_ChecksFirst(p) ==
    IF ~p.checksPass THEN "Checks not passing"
    ELSE IF ~p.approved THEN "Not approved"
    ELSE IF ~p.mergeable THEN "Not mergeable"
    ELSE "PR not open"

\* the reason reported for a linked PR that is not ready
NotReadyError(p) ==
    IF ~p.approved THEN "Not approved"
    ELSE IF ~p.checksPass THEN "Checks not passing"
    ELSE IF ~p.mergeable THEN "Not mergeable"
    ELSE "PR not open"

\* the result returned when the gate rejects the run
GateRejection(mpr) ==
    LET notReady == FindNotReady(mpr.linkedPRs)
    IN [success |-> FALSE,
        mergedPRs |-> <<>>,
        failedPR |->
            IF notReady # <<>>
            THEN <<[repoName |-> notReady[1].repoName,
                    number |-> notReady[1].number,
                    error |-> NotReadyError(notReady[1])]>>
            ELSE <<>>]

\* mutant: a failed run reports an empty list of merged PRs
ChildFailure_DropsMerged(merged, linkedPR) ==
    [success |-> FALSE,
     mergedPRs |-> <<>>,
     failedPR |-> <<[repoName |-> linkedPR.repoName,
                     number |-> linkedPR.number,
                     error |-> "Merge failed"]>>]

\* the result returned when the merge of a linked PR failed
ChildFailure(merged, linkedPR) ==
    [success |-> FALSE,
     mergedPRs |-> merged,
     failedPR |-> <<[repoName |-> linkedPR.repoName,
                     number |-> linkedPR.number,
                     error |-> "Merge failed"]>>]

\* mutant: the anchor failure is reported with the message of a child failure
AnchorFailure_AsChild(merged) ==
    [success |-> FALSE,
     mergedPRs |-> merged,
     failedPR |-> <<[repoName |-> ManifestLiteral,
                     number |-> ManifestPRNumber,
                     error |-> "Merge failed"]>>]

\* the result returned when the merge of the anchor PR failed
AnchorFailure(merged) ==
    [success |-> FALSE,
     mergedPRs |-> merged,
     failedPR |-> <<[repoName |-> ManifestLiteral,
                     number |-> ManifestPRNumber,
                     error |-> "Manifest PR merge failed"]>>]

\* the result returned when every merge succeeded
MergeSuccess(merged) ==
    [success |-> TRUE,
     mergedPRs |-> Append(merged, [repoName |-> ManifestLiteral,
                                   number |-> ManifestPRNumber]),
     failedPR |-> <<>>]

\* mutant: the merge error is swallowed like the branch-deletion error
mergePullRequest_IgnoresFailure(mergeOk, deleteBranch, getOk, delOk) == TRUE

\* mutant: a failed deletion of the branch makes the merge a failure
mergePullRequest_DeletionFatal(mergeOk, deleteBranch, getOk, delOk) ==
    mergeOk /\ (deleteBranch => (getOk /\ delOk))

\* What mergePullRequest returns: mergeOk, whether the forge's merge call
\* succeeded; getOk, whether the getPullRequest before the branch deletion
\* did; delOk, whether deleteRef did.
mergePullRequest(mergeOk, deleteBranch, getOk, delOk) ==
    IF ~mergeOk THEN FALSE
    ELSE IF deleteBranch /\ ~getOk THEN FALSE
    ELSE TRUE

\* What became of the PR's branch in a mergePullRequest call: "none", no
\* deletion was attempted; "unread", the getPullRequest before it failed;
\* "deleted"; "failed", deleteRef raised.
BranchDeletion(mergeOk, deleteBranch, getOk, delOk) ==
    IF ~mergeOk \/ ~deleteBranch THEN "none"
    ELSE IF ~getOk THEN "unread"
    ELSE IF delOk THEN "deleted"
    ELSE "failed"

\* A run that has ended left the set partially merged: it reported failure
\* after a merge call for a linked PR had succeeded on the forge.
PartialMerge(at, res, calls, mpr) ==
    /\ at = "done"
    /\ ~res.success
    /\ \E i \in 1..Len(calls) : i <= Len(mpr.linkedPRs) /\ calls[i].ok

\* mutant: the loop walks the linked PRs from the last to the first
NextLinked_Reversed(mpr, merged) == mpr.linkedPRs[Len(mpr.linkedPRs) - Len(merged)]

\* for (const linkedPR of manifestPR.linkedPRs): the element the loop is at
\* when merged holds the linked PRs merged so far
NextLinked(mpr, merged) == mpr.linkedPRs[Len(merged) + 1]

\* the forge accepts a merge call only for an existing, open pull request
ForgeCanMerge(ps, key) == key \in DOMAIN ps /\ ps[key].state = "open"

ForgeMerge(ps, key) == [ps EXCEPT ![key] = [state |-> "closed", merged |-> TRUE]]

\* ------------------------------------------------------------ anchor bodies
\* mutant: the pairs are written from the last to the first
PrLinks_Reversed(links) ==
    Join([k \in 1..Len(links) |->
             links[Len(links) + 1 - k].repoName \o <<"#">>
                 \o NumToStr(links[Len(links) + 1 - k].number)], ",")

\* linkedPRs.map(pr => `${pr.repoName}#${pr.number}`).join(',')
PrLinks(links) ==
    Join([k \in 1..Len(links) |->
             links[k].repoName \o <<"#">> \o NumToStr(links[k].number)], ",")

\* the marker line of a generated body
MarkerLine(payload) == MarkerPrefix \o payload \o MarkerSuffix \o <<"\n">>

\* prose a user wrote above the marker
Prose == <<"F", "i", "x", " ", "#", "9", ",", "\n">>

\* the (repoName, number) pairs the initial bodies link
LinkEntries ==
    { [repoName |-> RepoA, number |-> 1],
      [repoName |-> RepoB, number |-> 2],
      [repoName |-> RepoX, number |-> 3] }

LinkLists == UNION { [1..n -> LinkEntries] : n \in 0..MaxLinks }

\* The anchor bodies a run can meet: a marker over every link list, no
\* marker at all, a link to a PR that does not exist, and entries that are
\* not of the form repo#number.
AnchorBodies ==
    { Prose \o MarkerLine(PrLinks(l)) : l \in LinkLists }
    \cup { Prose,
           Prose \o MarkerLine(<<"A", "#", "7">>),
           Prose \o MarkerLine(<<"A", ",", "A", "#", "x">>) }

\* ------------------------------------------------------------------- state
VARIABLES
    pulls,        \* forge: PR key -> [state, merged]
    anchorBody,   \* forge: the body of the anchor PR
    pc,           \* position of the mergeAllLinkedPRs run
    deleteBranch, \* options.deleteBranch of the run
    anchorPR,     \* what getPullRequest returned for the anchor PR
    parsedLinks,  \* parseLinkedPRsFromBody(pr.body)
    linkedPRs,    \* the linked-PR infos fetched so far
    manifestPR,   \* what getManifestPRInfo returned
    mergedPRs,    \* the local list of merged PRs
    result,       \* what mergeAllLinkedPRs returned
    mergeCalls,   \* the merge calls the run issued to the forge, in order
    readFailed,   \* a forge read of the run's readiness computation failed
    priorPartial  \* history: an earlier run on this anchor PR merged a linked
                  \* PR on the forge and then ended in failure

mergeVars == <<pulls, anchorBody, pc, deleteBranch, anchorPR, parsedLinks,
               linkedPRs, manifestPR, mergedPRs, result, mergeCalls, readFailed,
               priorPartial>>

\* The marker encoder and decoder, applied to one input.
VARIABLES
    codecIn,      \* the input: arguments of generateManifestPRBody, or a body
    codecBody,    \* the body text handed to parseLinkedPRsFromBody
    codecOut,     \* what parseLinkedPRsFromBody returned
    codecPc       \* "input", "encoded" or "decoded"

codecVars == <<codecIn, codecBody, codecOut, codecPc>>

\* The reviews of one pull request and the evaluations of its approval.
VARIABLES
    prReviews,    \* forge: the states of the reviews submitted, oldest first
    approvedFlag, \* what the latest isPullRequestApproved call returned
    evaluatedLen  \* how many reviews that call saw, -1 before the first call

reviewVars == <<prReviews, approvedFlag, evaluatedLen>>

\* The state store: the file .codi-repo/state.json under the workspace root.
VARIABLES
    stateDirExists, \* the directory that holds the state file exists
    stateFile,      \* the state file: missing, unreadable, or its text
    loaded,         \* what the latest loadState call returned or raised
    savedDoc,       \* the latest completed saveState call: its document,
                    \* and the file it replaced
    storeOp         \* the latest call: "none", "load", "save", "saveFailed"

storeVars == <<stateDirExists, stateFile, loaded, savedDoc, storeOp>>

\* The PR creation flow (cr pr create), its working copies and the forge's
\* pull-request lists.
VARIABLES
    gitRepos,     \* working copies: repo -> [cloned, branch, ahead, remote]
    prList,       \* forge: repo -> its pull requests, newest first
    crPc,         \* position of the createPR run
    crPush,       \* options.push of the run
    crBranch,     \* branchName of the run
    crPushQueue,  \* repositories still to push
    crQueue,      \* repositories createLinkedPRs has still to handle
    crFound,      \* what findPRByBranch returned for the head of crQueue
    crLinked,     \* linkedPRs of createLinkedPRs
    crReturned,   \* createLinkedPRs has returned crLinked
    crPushes,     \* the pushes of the run, in order
    crCreates,    \* the createPullRequest calls of the run, in order
    crOutcome,    \* how the run ended
    crPrev,       \* the identities the latest earlier createLinkedPRs returned
    crFileBefore, \* the state file when the run started
    crOrphans     \* history: the repositories in which the run before this
                  \* one created a PR before its createLinkedPRs failed

createVars == <<gitRepos, prList, crPc, crPush, crBranch, crPushQueue, crQueue,
                crFound, crLinked, crReturned, crPushes, crCreates, crOutcome,
                crPrev, crFileBefore, crOrphans>>

\* The sync batch (cr sync).
VARIABLES
    syncGit,      \* working copies: repo -> [cloned, error of its pull/fetch]
    syncFetch,    \* options.fetch of the run
    syncPc,       \* position of the sync run
    syncResults,  \* results of the run
    syncSummary   \* the counts of the summary

syncVars == <<syncGit, syncFetch, syncPc, syncResults, syncSummary>>

\* Re-encoding of the anchor PR's body (syncManifestPRBody).
VARIABLES
    bsBody,       \* forge: the body of the anchor PR
    bsPc,         \* position of the syncManifestPRBody run
    bsLinked,     \* manifestPR.linkedPRs, as getManifestPRInfo returned them
    bsBefore      \* the body when the run started

bodySyncVars == <<bsBody, bsPc, bsLinked, bsBefore>>

\* parseGitHubUrl, applied to one URL.
VARIABLES
    urlIn,        \* the input: a URL and how it was built
    urlOut,       \* what parseGitHubUrl returned or raised
    urlPc         \* "input" or "parsed"

urlVars == <<urlIn, urlOut, urlPc>>

\* The promises of one mergeAllLinkedPRs run.
VARIABLES
    fanQuery,     \* per link of the anchor body, where its status query stands
    fanStep,      \* the Promise.all over the queries
    fanPc,        \* where the run stands
    fanInFlight,  \* the merge calls issued and not yet returned
    fanIssued     \* how many merge calls the run has issued

fanVars == <<fanQuery, fanStep, fanPc, fanInFlight, fanIssued>>

\* Two operators running createLinkedPRs against the same forge.
VARIABLES
    racePRs,      \* per repository, the forge's pull requests, newest first
    raceOps       \* per operator, where its createLinkedPRs call stands

raceVars == <<racePRs, raceOps>>

\* getLinkedPRInfo and the aggregate of getManifestPRInfo, on one set of
\* forge answers.
VARIABLES
    infoIn,       \* what the forge answers
    infoOut,      \* the LinkedPR getLinkedPRInfo built from it
    infoManifest, \* the ManifestPR getManifestPRInfo built
    infoPc        \* "input", "linked" or "done"

infoVars == <<infoIn, infoOut, infoManifest, infoPc>>

\* Two callers of the state-store updates on one workspace.
VARIABLES
    rmwFile,      \* the state file
    rmwDir,       \* whether the state directory exists
    rmwFile0,     \* history: the state file before the first call
    rmwOps,       \* per caller, its call and where it stands
    rmwSaves      \* history: the callers in the order of their saves

rmwVars == <<rmwFile, rmwDir, rmwFile0, rmwOps, rmwSaves>>

vars ==
    <<mergeVars, codecVars, reviewVars, storeVars, createVars, syncVars,
      bodySyncVars, urlVars, fanVars, raceVars, infoVars, rmwVars>>

\* the variables the sync batch leaves alone
notSyncVars ==
    <<mergeVars, codecVars, reviewVars, storeVars, createVars,
      bodySyncVars, urlVars, fanVars, raceVars, infoVars, rmwVars>>

\* the variables the re-encoding of the anchor body leaves alone
notBodySyncVars ==
    <<mergeVars, codecVars, reviewVars, storeVars, createVars, syncVars,
      urlVars, fanVars, raceVars, infoVars, rmwVars>>

\* the variables parseGitHubUrl leaves alone
notUrlVars ==
    <<mergeVars, codecVars, reviewVars, storeVars, createVars, syncVars,
      bodySyncVars, fanVars, raceVars, infoVars, rmwVars>>

\* the variables the promises of a run leave alone
notFanVars ==
    <<mergeVars, codecVars, reviewVars, storeVars, createVars, syncVars,
      bodySyncVars, urlVars, raceVars, infoVars, rmwVars>>

\* the variables concurrent createLinkedPRs calls leave alone
notRaceVars ==
    <<mergeVars, codecVars, reviewVars, storeVars, createVars, syncVars,
      bodySyncVars, urlVars, fanVars, infoVars, rmwVars>>

\* the variables the status reads leave alone
notInfoVars ==
    <<mergeVars, codecVars, reviewVars, storeVars, createVars, syncVars,
      bodySyncVars, urlVars, fanVars, raceVars, rmwVars>>

\* the variables the state-store updates leave alone
notRmwVars ==
    <<mergeVars, codecVars, reviewVars, storeVars, createVars, syncVars,
      bodySyncVars, urlVars, fanVars, raceVars, infoVars>>

\* the variables the merge orchestration leaves alone
notMergeVars ==
    <<codecVars, reviewVars, storeVars, createVars, syncVars,
      bodySyncVars, urlVars, fanVars, raceVars, infoVars, rmwVars>>

\* the variables the encoder and decoder leave alone
notCodecVars ==
    <<mergeVars, reviewVars, storeVars, createVars, syncVars,
      bodySyncVars, urlVars, fanVars, raceVars, infoVars, rmwVars>>

\* the variables the approval evaluation leaves alone
notReviewVars ==
    <<mergeVars, codecVars, storeVars, createVars, syncVars, bodySyncVars,
      urlVars, fanVars, raceVars, infoVars, rmwVars>>

\* the variables loadState and saveState leave alone
notStoreVars ==
    <<mergeVars, codecVars, reviewVars, createVars, syncVars,
      bodySyncVars, urlVars, fanVars, raceVars, infoVars, rmwVars>>

\* the variables the creation flow leaves alone, the state file apart
notCreateVars ==
    <<mergeVars, codecVars, reviewVars, loaded, savedDoc, storeOp,
      syncVars, bodySyncVars, urlVars, fanVars, raceVars, infoVars,
      rmwVars>>

NoCodecInput == [kind |-> "none"]

CodecIdle ==
    /\ codecIn = NoCodecInput
    /\ codecBody = <<>>
    /\ codecOut = <<>>
    /\ codecPc = "idle"

ReviewIdle ==
    /\ prReviews = <<>>
    /\ approvedFlag = FALSE
    /\ evaluatedLen = -1

\* a map without entries: the object {}
EmptyMap == <<>>

\* A JSON document, in the file or in memory: null, or an object whose
\* properties branchToPR, prLinks and currentManifestPR are each a list of
\* zero (property absent) or one value.
ObjectDoc(branchToPR, prLinks, currentManifestPR) ==
    [type |-> "object", branchToPR |-> branchToPR, prLinks |-> prLinks,
     currentManifestPR |-> currentManifestPR]

\* { branchToPR: {}, prLinks: {} }
DefaultState == ObjectDoc(<<EmptyMap>>, <<EmptyMap>>, <<>>)

MissingFile == [kind |-> "missing", valid |-> FALSE, json |-> DefaultState]

NoLoad == [raised |-> FALSE, value |-> DefaultState]

StoreIdle ==
    /\ stateDirExists = FALSE
    /\ stateFile = MissingFile
    /\ loaded = NoLoad
    /\ savedDoc = <<>>
    /\ storeOp = "none"

NoSummary == [succeeded |-> 0, failed |-> 0]

SyncIdle ==
    /\ syncGit = [r \in ManifestRepos |-> [cloned |-> FALSE, error |-> <<>>]]
    /\ syncFetch = FALSE
    /\ syncPc = "idle"
    /\ syncResults = <<>>
    /\ syncSummary = NoSummary

\* a repository that is not cloned
NotCloned == [cloned |-> FALSE, branch |-> "main", ahead |-> FALSE, remote |-> FALSE]

CreateIdle ==
    /\ gitRepos = [r \in ManifestRepos |-> NotCloned]
    /\ prList = [r \in ManifestRepos |-> <<>>]
    /\ crPc = "idle"
    /\ crPush = FALSE
    /\ crBranch = ""
    /\ crPushQueue = <<>>
    /\ crQueue = <<>>
    /\ crFound = <<>>
    /\ crLinked = <<>>
    /\ crReturned = FALSE
    /\ crPushes = <<>>
    /\ crCreates = <<>>
    /\ crOutcome = "none"
    /\ crPrev = <<>>
    /\ crFileBefore = MissingFile
    /\ crOrphans = {}

NoPR == [state |-> "closed", merged |-> FALSE]

NoManifestPR ==
    [number |-> 0, linkedPRs |-> <<>>, state |-> "none", readyToMerge |-> FALSE]

NoResult == [success |-> FALSE, mergedPRs |-> <<>>, failedPR |-> <<>>]

BodySyncIdle ==
    /\ bsBody = <<>>
    /\ bsPc = "idle"
    /\ bsLinked = <<>>
    /\ bsBefore = <<>>

NoUrlResult == [raised |-> FALSE, owner |-> <<>>, repo |-> <<>>]

UrlIdle ==
    /\ urlIn = [kind |-> "none", url |-> <<>>, owner |-> <<>>, repo |-> <<>>]
    /\ urlOut = NoUrlResult
    /\ urlPc = "idle"

FanIdle ==
    /\ fanQuery = <<>>
    /\ fanStep = "idle"
    /\ fanPc = "idle"
    /\ fanInFlight = {}
    /\ fanIssued = 0

Operators == {"op1", "op2"}

\* an operator that has not called createLinkedPRs
NotStarted ==
    [pc |-> "idle", branch |-> "", queue |-> <<>>, found |-> <<>>,
     seen |-> <<>>, linked |-> <<>>]

RaceIdle ==
    /\ racePRs = <<>>
    /\ raceOps = <<>>

InfoIdle ==
    /\ infoIn = <<>>
    /\ infoOut = <<>>
    /\ infoManifest = <<>>
    /\ infoPc = "idle"

RmwIdle ==
    /\ rmwFile = MissingFile
    /\ rmwDir = FALSE
    /\ rmwFile0 = MissingFile
    /\ rmwOps = <<>>
    /\ rmwSaves = <<>>

Init ==
    /\ pulls \in [PRKeys -> ForgePRStates]
    /\ anchorBody \in AnchorBodies
    /\ pc = "idle"
    /\ deleteBranch = FALSE
    /\ anchorPR = NoPR
    /\ parsedLinks = <<>>
    /\ linkedPRs = <<>>
    /\ manifestPR = NoManifestPR
    /\ mergedPRs = <<>>
    /\ result = NoResult
    /\ mergeCalls = <<>>
    /\ readFailed = FALSE
    /\ priorPartial = FALSE
    /\ CodecIdle
    /\ ReviewIdle
    /\ StoreIdle
    /\ CreateIdle
    /\ SyncIdle
    /\ BodySyncIdle
    /\ UrlIdle
    /\ FanIdle
    /\ RaceIdle
    /\ InfoIdle
    /\ RmwIdle

forgeVars == <<pulls, anchorBody>>

\* mergeAllLinkedPRs is called (a new run; the previous one has ended)
StartRun ==
    /\ UNCHANGED notMergeVars
    /\ pc \in {"idle", "done", "threw"}
    /\ pc' = "anchor"
    /\ deleteBranch' \in BOOLEAN
    /\ anchorPR' = NoPR
    /\ parsedLinks' = <<>>
    /\ linkedPRs' = <<>>
    /\ manifestPR' = NoManifestPR
    /\ mergedPRs' = <<>>
    /\ result' = NoResult
    /\ mergeCalls' = <<>>
    /\ readFailed' = FALSE
    /\ priorPartial' = (priorPartial \/ PartialMerge(pc, result, mergeCalls, manifestPR))
    /\ UNCHANGED forgeVars

\* getManifestPRInfo: getPullRequest of the anchor PR, then the body is parsed
GetAnchor ==
    /\ UNCHANGED <<notMergeVars, priorPartial>>
    /\ pc = "anchor"
    /\ anchorPR' = pulls[AnchorKey]
    /\ parsedLinks' = parseLinkedPRsFromBody(anchorBody)
    /\ pc' = "fanout"
    /\ UNCHANGED <<forgeVars, deleteBranch, linkedPRs, manifestPR, mergedPRs,
                   result, mergeCalls, readFailed>>

\* the next entry of the fan-out is not in the manifest: a placeholder
FetchPlaceholder ==
    /\ UNCHANGED <<notMergeVars, priorPartial>>
    /\ pc = "fanout"
    /\ Len(linkedPRs) < Len(parsedLinks)
    /\ LET link == parsedLinks[Len(linkedPRs) + 1]
       IN /\ RepoMapGet(link.repoName) = <<>>
          /\ linkedPRs' = Append(linkedPRs, Placeholder(link.repoName, link.number))
    /\ UNCHANGED <<forgeVars, pc, deleteBranch, anchorPR, parsedLinks, manifestPR,
                   mergedPRs, result, mergeCalls, readFailed>>

\* the next entry of the fan-out: getLinkedPRInfo reads the PR, its reviews
\* and the combined status of its head commit
FetchLinked ==
    /\ UNCHANGED <<notMergeVars, priorPartial>>
    /\ pc = "fanout"
    /\ Len(linkedPRs) < Len(parsedLinks)
    /\ LET link == parsedLinks[Len(linkedPRs) + 1]
           info == RepoMapGet(link.repoName)
       IN /\ info # <<>>
          /\ <<info[1].owner, info[1].repo, link.number>> \in DOMAIN pulls
          /\ \E reviews \in ReviewLists, checks \in StatusStates, m \in Mergeables :
                linkedPRs' = Append(linkedPRs,
                    getLinkedPRInfo(info[1].owner, info[1].repo, link.number,
                        link.repoName,
                        pulls[<<info[1].owner, info[1].repo, link.number>>],
                        reviews, checks, m))
    /\ UNCHANGED <<forgeVars, pc, deleteBranch, anchorPR, parsedLinks, manifestPR,
                   mergedPRs, result, mergeCalls, readFailed>>

\* mutant: a failed read of a linked PR is caught and the PR taken as ready
ReadFails_ReadyByDefault ==
    /\ UNCHANGED <<notMergeVars, priorPartial>>
    /\ pc = "fanout"
    /\ Len(linkedPRs) < Len(parsedLinks)
    /\ LET link == parsedLinks[Len(linkedPRs) + 1]
           info == RepoMapGet(link.repoName)
       IN /\ info # <<>>
          /\ linkedPRs' = Append(linkedPRs,
                [repoName |-> link.repoName, owner |-> info[1].owner,
                 repo |-> info[1].repo, number |-> link.number, state |-> "open",
                 approved |-> TRUE, checksPass |-> TRUE, mergeable |-> TRUE])
    /\ readFailed' = TRUE
    /\ UNCHANGED <<forgeVars, pc, deleteBranch, anchorPR, parsedLinks, manifestPR,
                   mergedPRs, result, mergeCalls>>

\* A forge read of getManifestPRInfo fails (always so for a PR that does not
\* exist): the rejection propagates out of mergeAllLinkedPRs.
ReadFails ==
    /\ UNCHANGED <<notMergeVars, priorPartial>>
    /\ \/ pc = "anchor"
       \/ /\ pc = "fanout"
          /\ Len(linkedPRs) < Len(parsedLinks)
          /\ RepoMapGet(parsedLinks[Len(linkedPRs) + 1].repoName) # <<>>
    /\ pc' = "threw"
    /\ readFailed' = TRUE
    /\ UNCHANGED <<forgeVars, deleteBranch, anchorPR, parsedLinks, linkedPRs,
                   manifestPR, mergedPRs, result, mergeCalls>>

\* getManifestPRInfo returns and the gate rejects the run
GateRejects ==
    /\ UNCHANGED <<notMergeVars, priorPartial>>
    /\ pc = "fanout"
    /\ Len(linkedPRs) = Len(parsedLinks)
    /\ LET mpr == ManifestPRInfo(anchorPR, linkedPRs)
       IN /\ ~mpr.readyToMerge
          /\ manifestPR' = mpr
          /\ result' = GateRejection(mpr)
    /\ pc' = "done"
    /\ UNCHANGED <<forgeVars, deleteBranch, anchorPR, parsedLinks, linkedPRs,
                   mergedPRs, mergeCalls, readFailed>>

\* getManifestPRInfo returns and the gate lets the run through
GatePasses ==
    /\ UNCHANGED <<notMergeVars, priorPartial>>
    /\ pc = "fanout"
    /\ Len(linkedPRs) = Len(parsedLinks)
    /\ LET mpr == ManifestPRInfo(anchorPR, linkedPRs)
       IN /\ mpr.readyToMerge
          /\ manifestPR' = mpr
    /\ pc' = "merging"
    /\ UNCHANGED <<forgeVars, deleteBranch, anchorPR, parsedLinks, linkedPRs,
                   mergedPRs, result, mergeCalls, readFailed>>

\* one iteration of the loop over manifestPR.linkedPRs
MergeLinked ==
    /\ UNCHANGED <<notMergeVars, priorPartial>>
    /\ pc = "merging"
    /\ Len(mergedPRs) < Len(manifestPR.linkedPRs)
    /\ LET linkedPR == NextLinked(manifestPR, mergedPRs)
           key == <<linkedPR.owner, linkedPR.repo, linkedPR.number>>
       IN \E mergeOk \in BOOLEAN, getOk \in BOOLEAN, delOk \in BOOLEAN :
            /\ mergeOk => ForgeCanMerge(pulls, key)
            /\ pulls' = IF mergeOk THEN ForgeMerge(pulls, key) ELSE pulls
            /\ mergeCalls' = Append(mergeCalls,
                   [key |-> key, ok |-> mergeOk,
                    branch |-> BranchDeletion(mergeOk, deleteBranch, getOk, delOk)])
            /\ IF mergePullRequest(mergeOk, deleteBranch, getOk, delOk)
               THEN /\ mergedPRs' = Append(mergedPRs,
                          [repoName |-> linkedPR.repoName, number |-> linkedPR.number])
                    /\ UNCHANGED <<pc, result>>
               ELSE /\ result' = ChildFailure(mergedPRs, linkedPR)
                    /\ pc' = "done"
                    /\ UNCHANGED mergedPRs
    /\ UNCHANGED <<anchorBody, deleteBranch, anchorPR, parsedLinks, linkedPRs,
                   manifestPR, readFailed>>

\* the merge of the anchor PR, after the loop
MergeAnchor ==
    /\ UNCHANGED <<notMergeVars, priorPartial>>
    /\ pc = "merging"
    /\ Len(mergedPRs) = Len(manifestPR.linkedPRs)
    /\ \E mergeOk \in BOOLEAN, getOk \in BOOLEAN, delOk \in BOOLEAN :
            /\ mergeOk => ForgeCanMerge(pulls, AnchorKey)
            /\ pulls' = IF mergeOk THEN ForgeMerge(pulls, AnchorKey) ELSE pulls
            /\ mergeCalls' = Append(mergeCalls,
                   [key |-> AnchorKey, ok |-> mergeOk,
                    branch |-> BranchDeletion(mergeOk, deleteBranch, getOk, delOk)])
            /\ result' = IF mergePullRequest(mergeOk, deleteBranch, getOk, delOk)
                         THEN MergeSuccess(mergedPRs)
                         ELSE AnchorFailure(mergedPRs)
    /\ pc' = "done"
    /\ UNCHANGED <<anchorBody, deleteBranch, anchorPR, parsedLinks, linkedPRs,
                   manifestPR, mergedPRs, readFailed>>

runVars == <<pc, deleteBranch, anchorPR, parsedLinks, linkedPRs, manifestPR,
             mergedPRs, result, mergeCalls, readFailed>>

\* Someone else closes, reopens or merges a pull request on the forge while
\* the run is between its gate and its last merge call.  (A change before the
\* run's reads is a different initial forge state; one after the run's return
\* is the initial forge state of the next run.)
ForgeClose ==
    /\ UNCHANGED <<notMergeVars, priorPartial>>
    /\ pc = "merging"
    /\ \E key \in PRKeys :
          /\ pulls[key].state = "open"
          /\ pulls' = [pulls EXCEPT ![key] = [state |-> "closed", merged |-> FALSE]]
    /\ UNCHANGED <<anchorBody, runVars>>

ForgeReopen ==
    /\ UNCHANGED <<notMergeVars, priorPartial>>
    /\ pc = "merging"
    /\ \E key \in PRKeys :
          /\ pulls[key].state = "closed" /\ ~pulls[key].merged
          /\ pulls' = [pulls EXCEPT ![key] = [state |-> "open", merged |-> FALSE]]
    /\ UNCHANGED <<anchorBody, runVars>>

ForgeMergedElsewhere ==
    /\ UNCHANGED <<notMergeVars, priorPartial>>
    /\ pc = "merging"
    /\ \E key \in PRKeys :
          /\ ForgeCanMerge(pulls, key)
          /\ pulls' = ForgeMerge(pulls, key)
    /\ UNCHANGED <<anchorBody, runVars>>

Next ==
    \/ StartRun
    \/ GetAnchor
    \/ FetchPlaceholder
    \/ FetchLinked
    \/ ReadFails
    \/ GateRejects
    \/ GatePasses
    \/ MergeLinked
    \/ MergeAnchor
    \/ ForgeClose
    \/ ForgeReopen
    \/ ForgeMergedElsewhere

Spec == Init /\ [][Next]_vars

\* ================================================================== claims
\* the run's getManifestPRInfo has returned
GateRan == manifestPR # NoManifestPR

\* readiness as the specification states it, over a returned ManifestPR
AllConditionsMet(mpr) ==
    /\ mpr.state = "open"
    /\ \A i \in 1..Len(mpr.linkedPRs) :
          /\ mpr.linkedPRs[i].approved = TRUE
          /\ mpr.linkedPRs[i].checksPass = TRUE
          /\ mpr.linkedPRs[i].mergeable = TRUE
          /\ mpr.linkedPRs[i].state = "open"

\* the (repoName, number) pair a result names a linked PR by
PairOf(p) == [repoName |-> p.repoName, number |-> p.number]

\* C1: when the readiness computed at the start of the run is false (anchor
\* not open, or some linked PR not approved / checks not passing / not
\* mergeable / not open), the run issues no merge call at all and returns
\* success = false with an empty mergedPRs.
C1_GateBlocksAllMerges ==
    (GateRan /\ ~AllConditionsMet(manifestPR)) =>
        /\ mergeCalls = <<>>
        /\ pc = "done"
        /\ result.success = FALSE
        /\ result.mergedPRs = <<>>

\* C1 witness: a rejected run over two linked PRs of which the first is
\* fully ready and the second only lacks mergeability, the anchor being open.
C1_Witness ==
    /\ pc = "done"
    /\ GateRan
    /\ manifestPR.state = "open"
    /\ Len(manifestPR.linkedPRs) = 2
    /\ LinkedReady(manifestPR.linkedPRs[1])
    /\ manifestPR.linkedPRs[2].approved
    /\ manifestPR.linkedPRs[2].checksPass
    /\ ~manifestPR.linkedPRs[2].mergeable
    /\ manifestPR.linkedPRs[2].state = "open"
    /\ mergeCalls = <<>>

\* C2: the readyToMerge flag getManifestPRInfo returns is true exactly when
\* the anchor PR is open and every linked PR decoded from the anchor body
\* (one entry per decoded pair, in order) is approved, has passing checks, is
\* mergeable and is open.
C2_ReadyIffAllConditions ==
    GateRan =>
        /\ Len(manifestPR.linkedPRs) = Len(parsedLinks)
        /\ \A i \in 1..Len(parsedLinks) :
              PairOf(manifestPR.linkedPRs[i]) = parsedLinks[i]
        /\ manifestPR.readyToMerge = AllConditionsMet(manifestPR)

\* C2 witness: readiness is false although every linked PR is ready, because
\* the anchor PR is not open.
C2_Witness ==
    /\ GateRan
    /\ Len(manifestPR.linkedPRs) = 2
    /\ \A i \in 1..2 : LinkedReady(manifestPR.linkedPRs[i])
    /\ manifestPR.state = "closed"
    /\ ~manifestPR.readyToMerge

\* C3: a merge call that failed is the last merge call of its run: nothing is
\* merged after it, neither a later linked PR nor the anchor PR.
C3_NoMergeAfterFailure ==
    \A i \in 1..Len(mergeCalls) : ~mergeCalls[i].ok => i = Len(mergeCalls)

\* C3 witness: the run has returned after the first of two linked PRs failed
\* to merge, with one merge call issued.
C3_Witness ==
    /\ pc = "done"
    /\ Len(manifestPR.linkedPRs) = 2
    /\ Len(mergeCalls) = 1
    /\ ~mergeCalls[1].ok

\* the forge key of a decoded link whose repository the manifest lists
KeyOfLink(link) ==
    <<RepoInfoOf(link.repoName).owner, RepoInfoOf(link.repoName).repo, link.number>>

\* C4: the i-th merge call of a run is for the i-th pair of the anchor body's
\* marker; a merge call for the anchor PR comes only after one successful
\* merge call per pair, so it is the last call of the run.
C4_MergeOrderIsMarkerOrder ==
    mergeCalls # <<>> =>
        LET decoded == parseLinkedPRsFromBody(anchorBody)
        IN /\ Len(mergeCalls) <= Len(decoded) + 1
           /\ \A i \in 1..Len(mergeCalls) :
                 IF i <= Len(decoded)
                 THEN mergeCalls[i].key = KeyOfLink(decoded[i])
                 ELSE /\ mergeCalls[i].key = AnchorKey
                      /\ \A j \in 1..(i - 1) : mergeCalls[j].ok

\* C4 witness: a marker listing the second repository before the first; the
\* run merged in that order and then issued the merge call of the anchor PR.
C4_Witness ==
    /\ Len(mergeCalls) = 3
    /\ mergeCalls[1].key = KeyB
    /\ mergeCalls[2].key = KeyA
    /\ mergeCalls[3].key = AnchorKey

\* C5: when the merge call of the linked PR at position k fails, the run
\* returns success = false, mergedPRs = the first k-1 linked PRs in order and
\* failedPR naming the k-th; the PRs merged before stay merged on the forge
\* and the run issues no merge call for the anchor PR.
C5_PartialMergeReport ==
    (/\ pc = "done"
     /\ mergeCalls # <<>>
     /\ Len(mergeCalls) <= Len(manifestPR.linkedPRs)
     /\ ~mergeCalls[Len(mergeCalls)].ok)
    => LET k == Len(mergeCalls)
       IN /\ result.success = FALSE
          /\ Len(result.mergedPRs) = k - 1
          /\ \A i \in 1..(k - 1) :
                /\ result.mergedPRs[i] = PairOf(manifestPR.linkedPRs[i])
                /\ mergeCalls[i].ok
                /\ pulls[mergeCalls[i].key].merged
          /\ Len(result.failedPR) = 1
          /\ result.failedPR[1].repoName = manifestPR.linkedPRs[k].repoName
          /\ result.failedPR[1].number = manifestPR.linkedPRs[k].number
          /\ \A i \in 1..k : mergeCalls[i].key # AnchorKey

\* C5 witness: two linked PRs, the first merged and the second's merge failed.
C5_Witness ==
    /\ pc = "done"
    /\ Len(mergeCalls) = 2
    /\ mergeCalls[1].ok
    /\ ~mergeCalls[2].ok
    /\ mergeCalls[2].key # AnchorKey
    /\ Len(result.mergedPRs) = 1

\* a linked PR of a returned ManifestPR that fails some readiness condition
Offending(p) ==
    p.approved = FALSE \/ p.checksPass = FALSE \/ p.mergeable = FALSE \/ p.state # "open"

\* C6: when the gate rejects a run in which some linked PR is not ready,
\* failedPR names the first such PR in encoded order, with the reason chosen
\* by the priority not approved > checks not passing > not mergeable > not
\* open (so no fully ready PR before it is named).
C6_FirstOffenderByPriority ==
    (/\ pc = "done"
     /\ GateRan
     /\ mergeCalls = <<>>
     /\ \E i \in 1..Len(manifestPR.linkedPRs) : Offending(manifestPR.linkedPRs[i]))
    => LET k == SetMin({i \in 1..Len(manifestPR.linkedPRs) :
                            Offending(manifestPR.linkedPRs[i])})
           p == manifestPR.linkedPRs[k]
       IN /\ Len(result.failedPR) = 1
          /\ result.failedPR[1].repoName = p.repoName
          /\ result.failedPR[1].number = p.number
          /\ ~p.approved => result.failedPR[1].error = "Not approved"
          /\ (p.approved /\ ~p.checksPass) =>
                result.failedPR[1].error = "Checks not passing"
          /\ (p.approved /\ p.checksPass /\ ~p.mergeable) =>
                result.failedPR[1].error = "Not mergeable"
          /\ (p.approved /\ p.checksPass /\ p.mergeable) =>
                result.failedPR[1].error = "PR not open"

\* C6 witness: the first linked PR is fully ready, the second is neither
\* approved nor passing its checks nor open, and the second is the one named.
C6_Witness ==
    /\ pc = "done"
    /\ mergeCalls = <<>>
    /\ Len(manifestPR.linkedPRs) = 2
    /\ ~Offending(manifestPR.linkedPRs[1])
    /\ manifestPR.linkedPRs[1].repoName # manifestPR.linkedPRs[2].repoName
    /\ ~manifestPR.linkedPRs[2].approved
    /\ ~manifestPR.linkedPRs[2].checksPass
    /\ manifestPR.linkedPRs[2].state # "open"
    /\ result.failedPR # <<>>

\* C7 (as claimed): every result with success = false carries a failedPR.
C7_FailureNamesFailedPR ==
    (pc = "done" /\ ~result.success) => result.failedPR # <<>>

\* the pair a result lists the i-th merge call of a run under
ReportedAs(i) ==
    IF i <= Len(manifestPR.linkedPRs)
    THEN PairOf(manifestPR.linkedPRs[i])
    ELSE [repoName |-> ManifestLiteral, number |-> ManifestPRNumber]

\* C8 (as claimed): at the return of a run, mergedPRs lists exactly the PRs
\* whose merge call succeeded on the forge during the run, in that order: no
\* merged PR is missing and none that was not merged is listed.
C8_MergedListIsAuditTrail ==
    pc = "done" =>
        /\ Len(result.mergedPRs) =
              Cardinality({i \in 1..Len(mergeCalls) : mergeCalls[i].ok})
        /\ \A i \in 1..Len(result.mergedPRs) :
              /\ i <= Len(mergeCalls)
              /\ mergeCalls[i].ok
              /\ result.mergedPRs[i] = ReportedAs(i)

\* C9: a failed merge of the anchor PR (one merge call per linked PR went
\* before) is reported with repoName "manifest", the anchor number and all
\* linked PRs in mergedPRs; no failedPR of a linked-PR merge failure equals
\* the failedPR of an anchor failure.
C9_AnchorFailureDistinct ==
    (pc = "done" /\ ~result.success /\ mergeCalls # <<>>) =>
        IF Len(mergeCalls) = Len(manifestPR.linkedPRs) + 1
        THEN /\ Len(result.failedPR) = 1
             /\ result.failedPR[1].repoName = ManifestLiteral
             /\ result.failedPR[1].number = ManifestPRNumber
             /\ Len(result.mergedPRs) = Len(manifestPR.linkedPRs)
             /\ \A i \in 1..Len(manifestPR.linkedPRs) :
                   result.mergedPRs[i] = PairOf(manifestPR.linkedPRs[i])
             /\ \A i \in 1..Len(manifestPR.linkedPRs) :
                   result.failedPR #
                       ChildFailure(<<>>, manifestPR.linkedPRs[i]).failedPR
        ELSE result.failedPR # AnchorFailure(<<>>).failedPR

\* C9 witness: the only linked PR belongs to a repository that is itself
\* named "manifest" and has the anchor's number; it merged, the anchor did not.
C9_Witness ==
    /\ pc = "done"
    /\ ~result.success
    /\ Len(mergeCalls) = 2
    /\ mergeCalls[1].key = KeyB
    /\ mergeCalls[2].key = AnchorKey
    /\ ~mergeCalls[2].ok

\* C10: once a forge read of the readiness computation has failed, the run
\* never counts the linked set as ready, issues no merge call and does not
\* return success.
C10_ReadFailureBlocksMerges ==
    readFailed =>
        /\ mergeCalls = <<>>
        /\ ~manifestPR.readyToMerge
        /\ ~result.success

\* C10 witness: the first linked PR was read and is ready, the read of the
\* second failed.
C10_Witness ==
    /\ readFailed
    /\ Len(parsedLinks) = 2
    /\ Len(linkedPRs) = 1
    /\ LinkedReady(linkedPRs[1])
    /\ anchorPR.state = "open"

\* ============================================================ marker codec
\* ---------------------------------------------- generateManifestPRBody
\* the text a template literal prints for pr.state
StateText(state) ==
    CASE state = "open" -> <<"o", "p", "e", "n">>
      [] state = "closed" -> <<"c", "l", "o", "s", "e", "d">>
      [] state = "merged" -> <<"m", "e", "r", "g", "e", "d">>

\* ":white_check_mark:"
IconCheck ==
    <<":", "w", "h", "i", "t", "e", "_", "c", "h", "e", "c", "k", "_", "m",
      "a", "r", "k", ":">>

\* ":hourglass:"
IconHourglass == <<":", "h", "o", "u", "r", "g", "l", "a", "s", "s", ":">>

\* ":x:"
IconX == <<":", "x", ":">>

statusIcon(pr) ==
    IF pr.state = "merged" THEN IconCheck
    ELSE IF pr.state = "open" THEN IconHourglass ELSE IconX

approvalIcon(pr) == IF pr.approved THEN IconCheck ELSE IconHourglass

checksIcon(pr) == IF pr.checksPass THEN IconCheck ELSE IconHourglass

\* one row of the status table
TableRow(pr) ==
    <<"|", " ">> \o pr.repoName \o <<" ", "|", " ", "[", "#">>
        \o NumToStr(pr.number) \o <<"]", "(">> \o pr.url
        \o <<")", " ", "|", " ">> \o statusIcon(pr) \o <<" ">>
        \o StateText(pr.state) \o <<" ", "|", " ">> \o approvalIcon(pr)
        \o <<" ", "|", " ">> \o checksIcon(pr) \o <<" ", "|">>

prTable(prs) ==
    Join([k \in 1..Len(prs) |-> TableRow(prs[k])], "\n")

\* "## Cross-Repository PR" and the blank line after it
BodyHeading ==
    <<"#", "#", " ", "C", "r", "o", "s", "s", "-", "R", "e", "p", "o", "s",
      "i", "t", "o", "r", "y", " ", "P", "R", "\n", "\n">>

\* the section heading and the two header lines of the table
TableHeading ==
    <<"#", "#", "#", " ", "L", "i", "n", "k", "e", "d", " ", "P", "u", "l",
      "l", " ", "R", "e", "q", "u", "e", "s", "t", "s", "\n", "\n", "|",
      " ", "R", "e", "p", "o", "s", "i", "t", "o", "r", "y", " ", "|", " ",
      "P", "R", " ", "|", " ", "S", "t", "a", "t", "u", "s", " ", "|", " ",
      "A", "p", "p", "r", "o", "v", "e", "d", " ", "|", " ", "C", "h", "e",
      "c", "k", "s", " ", "|", "\n", "|", "-", "-", "-", "-", "-", "-",
      "-", "-", "-", "-", "-", "-", "|", "-", "-", "-", "-", "-", "|", "-",
      "-", "-", "-", "-", "-", "-", "-", "|", "-", "-", "-", "-", "-", "-",
      "-", "-", "-", "-", "|", "-", "-", "-", "-", "-", "-", "-", "-", "|",
      "\n">>

\* the merge policy paragraph and the rule that precede the marker
PolicyText ==
    <<"*", "*", "M", "e", "r", "g", "e", " ", "P", "o", "l", "i", "c", "y",
      ":", "*", "*", " ", "A", "l", "l", "-", "o", "r", "-", "n", "o", "t",
      "h", "i", "n", "g", " ", "-", " ", "a", "l", "l", " ", "l", "i", "n",
      "k", "e", "d", " ", "P", "R", "s", " ", "m", "u", "s", "t", " ", "b",
      "e", " ", "a", "p", "p", "r", "o", "v", "e", "d", " ", "b", "e", "f",
      "o", "r", "e", " ", "m", "e", "r", "g", "e", ".", "\n", "\n", "-",
      "-", "-", "\n">>

\* additionalBody ?? '': the argument is a list of zero or one strings
OrEmpty(optS) == IF optS = <<>> THEN <<>> ELSE optS[1]

\* The title argument does not appear in the text the function returns.
generateManifestPRBody(title, prs, additionalBody) ==
    BodyHeading \o OrEmpty(additionalBody) \o <<"\n", "\n">> \o TableHeading
        \o prTable(prs) \o <<"\n", "\n">> \o PolicyText
        \o MarkerLine(PrLinks(prs))

\* -------------------------------------------------------- codec inputs
\* html_url of a pull request, as the forge reports it
PullUrl(repoName, number) ==
    <<"h", "t", "t", "p", "s", ":", "/", "/", "g", "i", "t", "h", "u", "b",
      ".", "c", "o", "m", "/", "a", "c", "m", "e", "/">>
        \o repoName \o <<"/", "p", "u", "l", "l", "/">> \o NumToStr(number)

CodecPR(repoName, number, state, approved, checksPass) ==
    [repoName |-> repoName,
     owner |-> "acme",
     repo |-> repoName,
     number |-> number,
     url |-> PullUrl(repoName, number),
     state |-> state,
     approved |-> approved,
     checksPass |-> checksPass,
     mergeable |-> TRUE]

\* The linked PRs handed to the encoder.  Two of them share a repository
\* and two share a number; one number has two digits.
CodecPRs ==
    { CodecPR(RepoA, 1, "open", TRUE, TRUE),
      CodecPR(RepoB, 2, "open", FALSE, FALSE),
      CodecPR(RepoX, 1, "merged", TRUE, TRUE),
      CodecPR(RepoA, 12, "closed", FALSE, TRUE) }

CodecLists == UNION { [1..n -> CodecPRs] : n \in 0..MaxLinks }

Titles == { <<"T">>, <<"A", "#", "7">> }

\* a description that quotes the marker line of another manifest PR
QuotedBody ==
    <<"S", "e", "e", "\n">>
        \o MarkerLine(<<"X", "#", "3">>)

\* additionalBody: absent, plain prose, or prose that quotes a marker
ExtraBodies == { <<>>, <<Prose>>, <<QuotedBody>> }

\* marker payloads with an entry that is not of the form repo#number
MalformedPayloads ==
    { <<"A">>,
      <<"A", "#">>,
      <<"A", "#", "x">>,
      <<"A", "#", "1", ",", "X">>,
      <<"A", ",", "X", "#", "3">> }

\* a generated body from which the marker line was deleted
TableOnly(l) ==
    BodyHeading \o <<"\n", "\n">> \o TableHeading \o prTable(l)
        \o <<"\n", "\n">> \o PolicyText

CodecInput(kind, title, l, extra, payload) ==
    [kind |-> kind, title |-> title, linkedPRs |-> l,
     additionalBody |-> extra, payload |-> payload]

\* What the codec is applied to: the arguments of an encoding; a body
\* without marker (empty, prose, a status table alone); a status table
\* whose marker line was edited to name other PRs; a malformed marker.
CodecInputs ==
    { CodecInput("generate", t, l, x, <<>>) :
          t \in Titles, l \in CodecLists, x \in ExtraBodies }
    \cup { CodecInput("nomarker", <<>>, l, x, <<>>) :
               l \in CodecLists, x \in {<<>>, <<Prose>>} }
    \cup { CodecInput("edited", <<>>, l, <<>>, PrLinks(m)) :
               l \in CodecLists, m \in [1..1 -> CodecPRs] }
    \cup { CodecInput("malformed", <<>>, <<>>, <<>>, p) :
               p \in MalformedPayloads }

\* the body text of an input that is not an encoding
WrittenBody(input) ==
    CASE input.kind = "nomarker" ->
             IF input.linkedPRs = <<>>
             THEN OrEmpty(input.additionalBody)
             ELSE OrEmpty(input.additionalBody) \o TableOnly(input.linkedPRs)
      [] input.kind = "edited" ->
             TableOnly(input.linkedPRs) \o MarkerLine(input.payload)
      [] input.kind = "malformed" -> Prose \o MarkerLine(input.payload)

\* ------------------------------------------------------- codec actions
MergeIdle ==
    /\ pulls = [k \in PRKeys |-> NoPR]
    /\ anchorBody = <<>>
    /\ pc = "idle"
    /\ deleteBranch = FALSE
    /\ anchorPR = NoPR
    /\ parsedLinks = <<>>
    /\ linkedPRs = <<>>
    /\ manifestPR = NoManifestPR
    /\ mergedPRs = <<>>
    /\ result = NoResult
    /\ mergeCalls = <<>>
    /\ readFailed = FALSE
    /\ priorPartial = FALSE

InitCodec ==
    /\ codecIn \in CodecInputs
    /\ codecBody = <<>>
    /\ codecOut = <<>>
    /\ codecPc = "input"
    /\ MergeIdle
    /\ ReviewIdle
    /\ StoreIdle
    /\ CreateIdle
    /\ SyncIdle
    /\ BodySyncIdle
    /\ UrlIdle
    /\ FanIdle
    /\ RaceIdle
    /\ InfoIdle
    /\ RmwIdle

\* generateManifestPRBody is called on the input
CodecGenerate ==
    /\ codecPc = "input"
    /\ codecIn.kind = "generate"
    /\ codecBody' = generateManifestPRBody(codecIn.title, codecIn.linkedPRs,
                                           codecIn.additionalBody)
    /\ codecPc' = "encoded"
    /\ UNCHANGED <<codecIn, codecOut>>
    /\ UNCHANGED notCodecVars

\* a body that a person wrote or edited is read from the forge
CodecWritten ==
    /\ codecPc = "input"
    /\ codecIn.kind # "generate"
    /\ codecBody' = WrittenBody(codecIn)
    /\ codecPc' = "encoded"
    /\ UNCHANGED <<codecIn, codecOut>>
    /\ UNCHANGED notCodecVars

\* parseLinkedPRsFromBody is called on the body
CodecParse ==
    /\ codecPc = "encoded"
    /\ codecOut' = parseLinkedPRsFromBody(codecBody)
    /\ codecPc' = "decoded"
    /\ UNCHANGED <<codecIn, codecBody>>
    /\ UNCHANGED notCodecVars

NextCodec ==
    \/ CodecGenerate
    \/ CodecWritten
    \/ CodecParse

SpecCodec == InitCodec /\ [][NextCodec]_vars

\* -------------------------------------------------------- codec claims
Pairs(l) == [k \in 1..Len(l) |-> PairOf(l[k])]

UniquePairs(l) ==
    \A i, j \in 1..Len(l) : PairOf(l[i]) = PairOf(l[j]) => i = j

\* C11: decoding the body generated for a non-empty list of linked PRs with
\* unique (repoName, number) pairs returns exactly those pairs, in order,
\* whatever the title and the additional body are.
C11_RoundTrip ==
    (/\ codecPc = "decoded"
     /\ codecIn.kind = "generate"
     /\ codecIn.linkedPRs # <<>>
     /\ UniquePairs(codecIn.linkedPRs))
        => Pairs(codecOut) = Pairs(codecIn.linkedPRs)

HasMarkerPrefix(body) ==
    \E i \in 1..Len(body) : StartsWithAt(body, i, MarkerPrefix)

\* C12: a body that holds no marker decodes to the empty list, and the
\* status table contributes nothing to the result: a table followed by a
\* marker decodes to what the marker line alone decodes to.
C12_NoMarkerNoLinks ==
    codecPc = "decoded" =>
        /\ ~HasMarkerPrefix(codecBody) => codecOut = <<>>
        /\ codecIn.kind = "edited" =>
               codecOut = parseLinkedPRsFromBody(MarkerLine(codecIn.payload))

C12_Witness ==
    /\ codecPc = "decoded"
    /\ codecIn.kind = "nomarker"
    /\ codecIn.linkedPRs = <<CodecPR(RepoA, 12, "closed", FALSE, TRUE)>>
    /\ codecIn.additionalBody = <<Prose>>
    /\ ~HasMarkerPrefix(codecBody)
    /\ codecOut = <<>>

\* C13: a body whose marker holds an entry that is not of the form
\* repo#number (no "#", no number, a number that is not numeric) decodes to
\* the empty list.
C13_MalformedDecodesEmpty ==
    (codecPc = "decoded" /\ codecIn.kind = "malformed") => codecOut = <<>>

\* ======================================================= approval over time
\* The states a review can be submitted in.
ReviewStates == {"APPROVED", "CHANGES_REQUESTED", "COMMENTED", "DISMISSED"}

InitReviews ==
    /\ ReviewIdle
    /\ MergeIdle
    /\ CodecIdle
    /\ StoreIdle
    /\ CreateIdle
    /\ SyncIdle
    /\ BodySyncIdle
    /\ UrlIdle
    /\ FanIdle
    /\ RaceIdle
    /\ InfoIdle
    /\ RmwIdle

\* a reviewer submits a review; the forge appends it to the history
SubmitReview ==
    /\ Len(prReviews) < MaxReviews
    /\ \E state \in ReviewStates : prReviews' = Append(prReviews, state)
    /\ UNCHANGED <<approvedFlag, evaluatedLen>>
    /\ UNCHANGED notReviewVars

\* getPullRequestReviews: the list the forge returns, oldest review first
getPullRequestReviews(history) == history

\* isPullRequestApproved is called on the pull request
EvaluateApproval ==
    /\ approvedFlag' = isPullRequestApproved(getPullRequestReviews(prReviews))
    /\ evaluatedLen' = Len(prReviews)
    /\ UNCHANGED prReviews
    /\ UNCHANGED notReviewVars

NextReviews ==
    \/ SubmitReview
    \/ EvaluateApproval

SpecReviews == InitReviews /\ [][NextReviews]_vars

\* how many of the first n reviews are in the given state
CountOf(state, n) == Cardinality({ i \in 1..n : prReviews[i] = state })

\* C14: the flag an evaluation returns is true exactly when the reviews it
\* saw hold at least one APPROVED and no CHANGES_REQUESTED; so once a
\* CHANGES_REQUESTED review is in the history, every evaluation made
\* afterwards returns false, whatever was submitted after it.
C14_ApprovedIffNoChangeRequest ==
    evaluatedLen >= 0 =>
        /\ approvedFlag = (/\ CountOf("APPROVED", evaluatedLen) >= 1
                           /\ CountOf("CHANGES_REQUESTED", evaluatedLen) = 0)
        /\ CountOf("CHANGES_REQUESTED", evaluatedLen) >= 1 => ~approvedFlag

C14_Witness ==
    /\ prReviews = <<"CHANGES_REQUESTED", "APPROVED", "APPROVED">>
    /\ evaluatedLen = 3
    /\ ~approvedFlag

\* ================================================================ state store
\* --------------------------------------------------------------- documents
Branches == {"feat", "main"}

\* m with key k set to v
MapPut(map, k, v) ==
    [x \in (DOMAIN map) \cup {k} |-> IF x = k THEN v ELSE map[x]]

\* the maps from a set of branches to PR numbers (-1: PRs exist, no anchor yet)
BranchMaps == UNION { [bs -> {-1, 2}] : bs \in SUBSET Branches }

\* what the state file caches of one linked PR
CachedLink == [repoName |-> RepoA, number |-> 1, state |-> "open"]

\* the prLinks maps: empty, or the links of manifest PR 2
LinkMaps == { EmptyMap, [n \in {2} |-> <<CachedLink>>] }

\* the well-formed state documents
StateDocs ==
    { ObjectDoc(<<b>>, <<l>>, c) :
          b \in BranchMaps, l \in LinkMaps, c \in {<<>>, <<2>>} }

\* ------------------------------------------------------------- file system
TextFile(valid, json) == [kind |-> "text", valid |-> valid, json |-> json]

UnreadableFile == [kind |-> "unreadable", valid |-> FALSE, json |-> DefaultState]

\* a file whose text is not JSON (truncated, hand-edited)
InvalidFile == TextFile(FALSE, DefaultState)

\* JSON.stringify(state, null, 2): the text of the document
JsonStringify(doc) == TextFile(TRUE, doc)

\* readFile raises on a missing or unreadable file
ReadFileRaises(file) == file.kind # "text"

\* JSON.parse raises on text that is not JSON
JsonParseRaises(file) == ~file.valid

\* mutant: only a missing file is caught
loadState_CatchesMissingOnly(file) ==
    IF file.kind = "missing"
    THEN [raised |-> FALSE, value |-> DefaultState]
    ELSE IF ReadFileRaises(file) \/ JsonParseRaises(file)
         THEN [raised |-> TRUE, value |-> DefaultState]
         ELSE [raised |-> FALSE, value |-> file.json]

\* loadState: the parsed document, or the default when anything raised
loadState(file) ==
    IF ReadFileRaises(file) \/ JsonParseRaises(file)
    THEN [raised |-> FALSE, value |-> DefaultState]
    ELSE [raised |-> FALSE, value |-> file.json]

\* mkdir(stateDir, {recursive: true}): the directory exists afterwards
Mkdir(dirExists) == TRUE

\* writeFile raises when the directory of the file does not exist
WriteFileRaises(dirExists) == ~dirExists

\* mutant: the new document is merged into the one in the file
Overwrite_Merges(file, text) ==
    IF file.kind = "text" /\ file.valid
    THEN TextFile(TRUE,
             ObjectDoc(<<[b \in (DOMAIN file.json.branchToPR[1])
                                  \cup (DOMAIN text.json.branchToPR[1]) |->
                            IF b \in DOMAIN text.json.branchToPR[1]
                            THEN text.json.branchToPR[1][b]
                            ELSE file.json.branchToPR[1][b]]>>,
                       text.json.prLinks, text.json.currentManifestPR))
    ELSE text

\* writeFile replaces the content of the file
Overwrite(file, text) == text

\* ----------------------------------------------------------------- actions
\* the state files a workspace can hold before a command runs
InitialFiles ==
    {MissingFile, UnreadableFile, InvalidFile}
        \cup { JsonStringify(d) : d \in StateDocs }

InitStore ==
    /\ stateDirExists \in BOOLEAN
    /\ stateFile \in InitialFiles
    /\ ~stateDirExists => stateFile = MissingFile
    /\ loaded = NoLoad
    /\ savedDoc = <<>>
    /\ storeOp = "none"
    /\ MergeIdle
    /\ CodecIdle
    /\ ReviewIdle
    /\ CreateIdle
    /\ SyncIdle
    /\ BodySyncIdle
    /\ UrlIdle
    /\ FanIdle
    /\ RaceIdle
    /\ InfoIdle
    /\ RmwIdle

\* loadState(rootDir)
LoadState ==
    /\ loaded' = loadState(stateFile)
    /\ storeOp' = "load"
    /\ UNCHANGED <<stateDirExists, stateFile, savedDoc>>
    /\ UNCHANGED notStoreVars

\* saveState(rootDir, state)
SaveState ==
    /\ \E state \in StateDocs :
          LET dir == Mkdir(stateDirExists)
          IN /\ stateDirExists' = dir
             /\ IF WriteFileRaises(dir)
                THEN /\ storeOp' = "saveFailed"
                     /\ UNCHANGED <<stateFile, savedDoc>>
                ELSE /\ stateFile' = Overwrite(stateFile, JsonStringify(state))
                     /\ savedDoc' = <<[state |-> state, replaced |-> stateFile]>>
                     /\ storeOp' = "save"
    /\ UNCHANGED loaded
    /\ UNCHANGED notStoreVars

NextStore ==
    \/ LoadState
    \/ SaveState

SpecStore == InitStore /\ [][NextStore]_vars

\* ------------------------------------------------------------------ claims
\* C16: when the state file is missing, unreadable or not valid JSON,
\* loadState does not raise and returns { branchToPR: {}, prLinks: {} }.
C16_LoadFallsBackToEmpty ==
    (/\ storeOp = "load"
     /\ \/ stateFile.kind \in {"missing", "unreadable"}
        \/ stateFile.kind = "text" /\ ~stateFile.valid)
        => /\ ~loaded.raised
           /\ loaded.value.type = "object"
           /\ loaded.value.branchToPR = <<EmptyMap>>
           /\ loaded.value.prLinks = <<EmptyMap>>
           /\ loaded.value.currentManifestPR = <<>>

C16_Witness ==
    /\ storeOp = "load"
    /\ stateFile = InvalidFile
    /\ ~loaded.raised
    /\ loaded.value = DefaultState

\* C17: saveState never fails, also when the state directory did not exist;
\* a loadState that follows a completed saveState(s) returns exactly s, so
\* nothing of the document stored before survives unless s holds it.
C17_SaveOverwritesWholeDocument ==
    /\ storeOp # "saveFailed"
    /\ (storeOp = "load" /\ savedDoc # <<>>) =>
           /\ ~loaded.raised
           /\ loaded.value = savedDoc[1].state

C17_Witness ==
    /\ storeOp = "load"
    /\ savedDoc # <<>>
    /\ savedDoc[1].replaced =
           JsonStringify(ObjectDoc(<<[b \in Branches |-> 2]>>,
                                   <<[n \in {2} |-> <<CachedLink>>]>>, <<2>>))
    /\ savedDoc[1].state = ObjectDoc(<<[b \in {"feat"} |-> -1]>>, <<EmptyMap>>, <<>>)
    /\ loaded.value = savedDoc[1].state

\* ============================================================== PR creation
\* ------------------------------------------------------------ working copies
\* the repositories of the manifest, in the order getAllRepoInfo lists them
ManifestRepoList == <<RepoA, RepoB>>

\* repo.default_branch: the manifest gives each repository its own
DefaultBranch(r) == IF r = RepoB THEN "fix" ELSE "main"

\* the branches a working copy can be on
GitBranches == {"feat", "fix", "main"}

\* What the git queries report for one repository: whether it is cloned,
\* its current branch, whether it has commits ahead of its default branch,
\* and whether its current branch exists on the remote.
GitStates ==
    {NotCloned}
        \cup { g \in [cloned : {TRUE}, branch : GitBranches,
                       ahead : BOOLEAN, remote : BOOLEAN] :
                   g.remote => g.ahead }

clonedRepos(git) ==
    LET IsCloned(r) == git[r].cloned
    IN SelectSeq(ManifestRepoList, IsCloned)

\* mutant: only repositories with commits ahead are compared
uniqueBranches_OnlyAhead(git) ==
    { git[r].branch : r \in { x \in ManifestRepos : git[x].cloned /\ git[x].ahead } }

\* [...new Set(branches.map(b => b.branch))], as a set
uniqueBranches(git) ==
    { git[r].branch : r \in { x \in ManifestRepos : git[x].cloned } }

\* uniqueBranches[0]: the branch of the first cloned repository
branchName(git) == git[clonedRepos(git)[1]].branch

onDefaultBranch(git) ==
    \E i \in 1..Len(clonedRepos(git)) :
        DefaultBranch(clonedRepos(git)[i]) = branchName(git)

withChanges(git) ==
    LET HasChanges(r) == git[r].ahead
    IN SelectSeq(clonedRepos(git), HasChanges)

\* mutant: no repository is taken to need a push
needsPush_None(git) == <<>>

needsPush(git) ==
    LET NeedsPush(r) == git[r].ahead /\ ~git[r].remote
    IN SelectSeq(clonedRepos(git), NeedsPush)

\* how the checks that precede the first push end
Preflight(git, push) ==
    IF clonedRepos(git) = <<>> THEN "notCloned"
    ELSE IF Cardinality(uniqueBranches(git)) > 1 THEN "differentBranches"
    ELSE IF onDefaultBranch(git) THEN "defaultBranch"
    ELSE IF withChanges(git) = <<>> THEN "noChanges"
    ELSE IF needsPush(git) # <<>> /\ ~push THEN "needsPush"
    ELSE "proceed"

\* A run that has ended left PRs behind: createLinkedPRs failed after the
\* run had created PRs; the repositories of those PRs.
FailedAfterCreate(at, returned, outcome, creates) ==
    IF at = "done" /\ ~returned /\ outcome = "failed"
    THEN { creates[k] : k \in 1..Len(creates) }
    ELSE {}

\* ----------------------------------------------------------------- the forge
PullRequest(number, head, state, by, approved) ==
    [number |-> number, head |-> head, state |-> state, by |-> by,
     approved |-> approved]

\* mutant: the lookup finds nothing
findPRByBranch_NeverFinds(list, branch) == <<>>

\* findPRByBranch: the first open pull request whose head is the branch, as
\* a list of zero (null) or one number
findPRByBranch(list, branch) ==
    LET open == { i \in 1..Len(list) :
                    list[i].state = "open" /\ list[i].head = branch }
    IN IF open = {} THEN <<>> ELSE <<list[SetMin(open)].number>>

\* mutant: the entry is filled in from what was asked for, not read
CreatedLinkedPR_Placeholder(r, number, list) ==
    [repoName |-> r, number |-> number, state |-> "open", approved |-> FALSE]

\* what createLinkedPRs keeps of getLinkedPRInfo's answer
CreatedLinkedPR(r, number, list) ==
    LET pr == list[CHOOSE i \in 1..Len(list) : list[i].number = number]
    IN [repoName |-> r, number |-> number, state |-> pr.state,
        approved |-> pr.approved]

\* the pull-request lists a repository can start with: none, or one opened
\* by hand from the feature branch (approved since, or not) or from another
\* branch
InitialPRLists ==
    { <<>>,
      <<PullRequest(1, "feat", "open", "other", FALSE)>>,
      <<PullRequest(1, "feat", "open", "other", TRUE)>>,
      <<PullRequest(1, "fix", "open", "other", FALSE)>> }

\* the JSON document null
NullDoc ==
    [type |-> "null", branchToPR |-> <<>>, prLinks |-> <<>>,
     currentManifestPR |-> <<>>]

\* the state files a creation run can find
CreateInitialFiles ==
    { MissingFile,
      InvalidFile,
      JsonStringify(NullDoc),
      JsonStringify(ObjectDoc(<<[b \in {"main"} |-> 2]>>, <<EmptyMap>>, <<2>>)) }

\* ------------------------------------------------------------------- actions
InitCreate ==
    /\ gitRepos \in [ManifestRepos -> GitStates]
    /\ prList \in [ManifestRepos -> InitialPRLists]
    /\ stateFile \in CreateInitialFiles
    /\ stateDirExists = (stateFile # MissingFile)
    /\ crPc = "idle"
    /\ crPush = FALSE
    /\ crBranch = ""
    /\ crPushQueue = <<>>
    /\ crQueue = <<>>
    /\ crFound = <<>>
    /\ crLinked = <<>>
    /\ crReturned = FALSE
    /\ crPushes = <<>>
    /\ crCreates = <<>>
    /\ crOutcome = "none"
    /\ crPrev = <<>>
    /\ crFileBefore = MissingFile
    /\ crOrphans = {}
    /\ loaded = NoLoad
    /\ savedDoc = <<>>
    /\ storeOp = "none"
    /\ MergeIdle
    /\ CodecIdle
    /\ ReviewIdle
    /\ SyncIdle
    /\ BodySyncIdle
    /\ UrlIdle
    /\ FanIdle
    /\ RaceIdle
    /\ InfoIdle
    /\ RmwIdle

fileVars == <<stateDirExists, stateFile>>

\* createPR is called: the checks up to the first push
CreatePRStart ==
    /\ crPc \in {"idle", "done"}
    /\ \E push \in BOOLEAN :
          LET out == Preflight(gitRepos, push)
          IN /\ crPush' = push
             /\ crBranch' = IF clonedRepos(gitRepos) = <<>>
                            THEN "" ELSE branchName(gitRepos)
             /\ crOutcome' = IF out = "proceed" THEN "none" ELSE out
             /\ crPushQueue' = IF out = "proceed" THEN needsPush(gitRepos) ELSE <<>>
             /\ crQueue' = IF out = "proceed" THEN withChanges(gitRepos) ELSE <<>>
             /\ crPc' = IF out # "proceed" THEN "done"
                        ELSE IF needsPush(gitRepos) # <<>> THEN "pushing"
                        ELSE "lookup"
    /\ crPrev' = IF crReturned
                 THEN <<[k \in 1..Len(crLinked) |-> PairOf(crLinked[k])]>>
                 ELSE crPrev
    /\ crFound' = <<>>
    /\ crLinked' = <<>>
    /\ crReturned' = FALSE
    /\ crPushes' = <<>>
    /\ crCreates' = <<>>
    /\ crFileBefore' = stateFile
    /\ crOrphans' = FailedAfterCreate(crPc, crReturned, crOutcome, crCreates)
    /\ UNCHANGED <<gitRepos, prList, fileVars>>
    /\ UNCHANGED notCreateVars

\* pushBranch for the next repository whose branch is not on the remote
CreatePRPush ==
    /\ crPc = "pushing"
    /\ LET r == Head(crPushQueue)
       IN \E ok \in BOOLEAN :
             IF ok
             THEN /\ gitRepos' = [gitRepos EXCEPT ![r].remote = TRUE]
                  /\ crPushes' = Append(crPushes, r)
                  /\ crPushQueue' = Tail(crPushQueue)
                  /\ crPc' = IF Tail(crPushQueue) = <<>> THEN "lookup" ELSE "pushing"
                  /\ UNCHANGED crOutcome
             ELSE /\ crOutcome' = "pushFailed"
                  /\ crPc' = "done"
                  /\ UNCHANGED <<gitRepos, crPushes, crPushQueue>>
    /\ UNCHANGED <<prList, crPush, crBranch, crQueue, crFound, crLinked,
                   crReturned, crCreates, crPrev, crFileBefore, crOrphans,
                   fileVars>>
    /\ UNCHANGED notCreateVars

\* createLinkedPRs: findPRByBranch for the next repository
CreateLookup ==
    /\ crPc = "lookup"
    /\ crFound' = findPRByBranch(prList[Head(crQueue)], crBranch)
    /\ crPc' = "resolve"
    /\ UNCHANGED <<gitRepos, prList, crPush, crBranch, crPushQueue, crQueue,
                   crLinked, crReturned, crPushes, crCreates, crOutcome,
                   crPrev, crFileBefore, crOrphans, fileVars>>
    /\ UNCHANGED notCreateVars

\* the loop of createLinkedPRs moves on, or the function returns
CreateAdvance ==
    /\ crQueue' = Tail(crQueue)
    /\ crFound' = <<>>
    /\ crReturned' = (Tail(crQueue) = <<>>)
    /\ crPc' = IF Tail(crQueue) = <<>> THEN "record" ELSE "lookup"

\* createLinkedPRs: an open pull request exists; its status is read
CreateExisting ==
    /\ crPc = "resolve"
    /\ crFound # <<>>
    /\ LET r == Head(crQueue)
       IN crLinked' = Append(crLinked, CreatedLinkedPR(r, crFound[1], prList[r]))
    /\ CreateAdvance
    /\ UNCHANGED <<gitRepos, prList, crPush, crBranch, crPushQueue, crPushes,
                   crCreates, crOutcome, crPrev, crFileBefore, crOrphans,
                   fileVars>>
    /\ UNCHANGED notCreateVars

\* createLinkedPRs: createPullRequest, then the status of the new pull
\* request is read; when that read fails the pull request stays on the forge
CreateNew ==
    /\ crPc = "resolve"
    /\ crFound = <<>>
    /\ LET r == Head(crQueue)
           number == Len(prList[r]) + 1
           list == <<PullRequest(number, crBranch, "open", "run", FALSE)>> \o prList[r]
       IN /\ number <= MaxPRs
          /\ prList' = [prList EXCEPT ![r] = list]
          /\ crCreates' = Append(crCreates, r)
          /\ \E readOk \in BOOLEAN :
                IF readOk
                THEN /\ crLinked' = Append(crLinked, CreatedLinkedPR(r, number, list))
                     /\ CreateAdvance
                     /\ UNCHANGED crOutcome
                ELSE /\ crOutcome' = "failed"
                     /\ crPc' = "done"
                     /\ UNCHANGED <<crLinked, crQueue, crFound, crReturned>>
    /\ UNCHANGED <<gitRepos, crPush, crBranch, crPushQueue, crPushes, crPrev,
                   crFileBefore, crOrphans, fileVars>>
    /\ UNCHANGED notCreateVars

\* a forge call of createLinkedPRs is rejected before anything was created
\* for the repository at hand; createPR's catch reports it
CreateFails ==
    /\ crPc \in {"lookup", "resolve"}
    /\ crOutcome' = "failed"
    /\ crPc' = "done"
    /\ UNCHANGED <<gitRepos, prList, crPush, crBranch, crPushQueue, crQueue,
                   crFound, crLinked, crReturned, crPushes, crCreates, crPrev,
                   crFileBefore, crOrphans, fileVars>>
    /\ UNCHANGED notCreateVars

\* createPR records the branch: loadState, branchToPR[branchName] = -1,
\* saveState; a loaded document without that map raises into the catch
CreateRecord ==
    /\ crPc = "record"
    /\ LET state == loadState(stateFile).value
       IN IF state.type = "object" /\ state.branchToPR # <<>>
          THEN /\ stateDirExists' = Mkdir(stateDirExists)
               /\ stateFile' =
                      Overwrite(stateFile,
                          JsonStringify([state EXCEPT !.branchToPR =
                              <<MapPut(state.branchToPR[1], crBranch, -1)>>]))
               /\ crOutcome' = "created"
          ELSE /\ crOutcome' = "failed"
               /\ UNCHANGED fileVars
    /\ crPc' = "done"
    /\ UNCHANGED <<gitRepos, prList, crPush, crBranch, crPushQueue, crQueue,
                   crFound, crLinked, crReturned, crPushes, crCreates, crPrev,
                   crFileBefore, crOrphans>>
    /\ UNCHANGED notCreateVars

\* between two runs, somebody closes an open pull request on the forge
ForgePRCloses ==
    /\ crPc \in {"idle", "done"}
    /\ \E r \in ManifestRepos :
          \E i \in 1..Len(prList[r]) :
             /\ prList[r][i].state = "open"
             /\ prList' = [prList EXCEPT ![r][i].state = "closed"]
    /\ UNCHANGED <<gitRepos, crPc, crPush, crBranch, crPushQueue, crQueue,
                   crFound, crLinked, crReturned, crPushes, crCreates,
                   crOutcome, crPrev, crFileBefore, crOrphans, fileVars>>
    /\ UNCHANGED notCreateVars

NextCreate ==
    \/ CreatePRStart
    \/ CreatePRPush
    \/ CreateLookup
    \/ CreateExisting
    \/ CreateNew
    \/ CreateFails
    \/ CreateRecord
    \/ ForgePRCloses

SpecCreate == InitCreate /\ [][NextCreate]_vars

\* ------------------------------------------------------------------- claims
\* the pull request of repository r with the given number is open
IsOpenPR(r, number) ==
    \E i \in 1..Len(prList[r]) :
        prList[r][i].number = number /\ prList[r][i].state = "open"

OpenFor(r, head) ==
    { i \in 1..Len(prList[r]) :
        prList[r][i].state = "open" /\ prList[r][i].head = head }

\* C15: when createLinkedPRs returns while every pull request an earlier
\* call returned is still open, it has issued no create call and returns the
\* same (repoName, number) pairs; and a repository never holds two open pull
\* requests for one branch, so without a close at most one was created.
C15_RerunCreatesNothing ==
    /\ (/\ crReturned
        /\ crPrev # <<>>
        /\ \A k \in 1..Len(crPrev[1]) :
               IsOpenPR(crPrev[1][k].repoName, crPrev[1][k].number))
           => /\ crCreates = <<>>
              /\ [k \in 1..Len(crLinked) |-> PairOf(crLinked[k])] = crPrev[1]
    /\ \A r \in ManifestRepos : \A head \in GitBranches :
           Cardinality(OpenFor(r, head)) <= 1

C15_Witness ==
    /\ crReturned
    /\ crPrev = <<<<[repoName |-> RepoA, number |-> 1],
                    [repoName |-> RepoB, number |-> 1]>>>>
    /\ prList[RepoA] = <<PullRequest(1, "feat", "open", "run", FALSE)>>
    /\ prList[RepoB] = <<PullRequest(1, "feat", "open", "run", FALSE)>>
    /\ crCreates = <<>>
    /\ Len(crLinked) = 2

\* C19: when the cloned repositories are on more than one branch, counting
\* those without commits ahead, a createPR run ends as refused without a
\* push, without a create call and with the state file as it was.
C19_DifferentBranchesRefused ==
    (/\ crPc # "idle"
     /\ \E r1, r2 \in ManifestRepos :
           /\ gitRepos[r1].cloned
           /\ gitRepos[r2].cloned
           /\ gitRepos[r1].branch # gitRepos[r2].branch)
        => /\ crPc = "done"
           /\ crOutcome = "differentBranches"
           /\ crPushes = <<>>
           /\ crCreates = <<>>
           /\ stateFile = crFileBefore

C19_Witness ==
    /\ crPc = "done"
    /\ crOutcome = "differentBranches"
    /\ crPush
    /\ gitRepos[RepoA] = [cloned |-> TRUE, branch |-> "feat", ahead |-> TRUE, remote |-> FALSE]
    /\ gitRepos[RepoB] = [cloned |-> TRUE, branch |-> "fix", ahead |-> FALSE, remote |-> FALSE]
    /\ crPushes = <<>>
    /\ crCreates = <<>>

\* ================================================================ sync batch
\* Error messages are sequences of words; includes() looks for a phrase.
Includes(msg, phrase) ==
    \E i \in 1..Len(msg) : StartsWithAt(msg, i, phrase)

UncommittedChanges == <<"uncommitted", "changes">>

Diverged == <<"diverged">>

NotClonedError == <<"not", "cloned">>

\* the messages a failing getCurrentBranch, pull or fetch raises
ErrorMessages ==
    { <<"cannot", "pull:", "uncommitted", "changes", "present">>,
      <<"branch", "has", "diverged">>,
      <<"diverged", "with", "uncommitted", "changes">>,
      <<"network", "unreachable">> }

\* What a repository of the batch is in: not cloned, or cloned with the
\* error its pull or fetch raises (a list of zero or one message).
SyncConditions ==
    { [cloned |-> FALSE, error |-> <<>>] }
        \cup { [cloned |-> TRUE, error |-> e] :
                   e \in {<<>>} \cup { <<msg>> : msg \in ErrorMessages } }

\* the error recorded for a message caught in the loop
RecordedError(errorMsg) ==
    IF Includes(errorMsg, UncommittedChanges) THEN UncommittedChanges
    ELSE IF Includes(errorMsg, Diverged) THEN Diverged
    ELSE errorMsg

SyncResult(repo, success, error) ==
    [repo |-> repo, success |-> success, error |-> error]

\* mutant: an error that is not one of the two known ones leaves the loop
SyncStep_RethrowsUnknown(results, repo, cond) ==
    IF ~cond.cloned
    THEN [aborted |-> FALSE,
          results |-> Append(results, SyncResult(repo, FALSE, <<NotClonedError>>))]
    ELSE IF cond.error = <<>>
    THEN [aborted |-> FALSE, results |-> Append(results, SyncResult(repo, TRUE, <<>>))]
    ELSE IF RecordedError(cond.error[1]) = cond.error[1]
    THEN [aborted |-> TRUE, results |-> results]
    ELSE [aborted |-> FALSE,
          results |-> Append(results,
              SyncResult(repo, FALSE, <<RecordedError(cond.error[1])>>))]

\* one iteration of the loop over the repositories
SyncStep(results, repo, cond) ==
    IF ~cond.cloned
    THEN [aborted |-> FALSE,
          results |-> Append(results, SyncResult(repo, FALSE, <<NotClonedError>>))]
    ELSE IF cond.error = <<>>
    THEN [aborted |-> FALSE, results |-> Append(results, SyncResult(repo, TRUE, <<>>))]
    ELSE [aborted |-> FALSE,
          results |-> Append(results,
              SyncResult(repo, FALSE, <<RecordedError(cond.error[1])>>))]

\* results.filter(...).length
CountResults(results, success) ==
    Cardinality({ i \in 1..Len(results) : results[i].success = success })

InitSync ==
    /\ syncGit \in [ManifestRepos -> SyncConditions]
    /\ syncFetch = FALSE
    /\ syncPc = "idle"
    /\ syncResults = <<>>
    /\ syncSummary = NoSummary
    /\ MergeIdle
    /\ CodecIdle
    /\ ReviewIdle
    /\ StoreIdle
    /\ CreateIdle
    /\ BodySyncIdle
    /\ UrlIdle
    /\ FanIdle
    /\ RaceIdle
    /\ InfoIdle
    /\ RmwIdle

\* sync is called
SyncStart ==
    /\ syncPc \in {"idle", "done"}
    /\ syncFetch' \in BOOLEAN
    /\ syncPc' = "loop"
    /\ syncResults' = <<>>
    /\ syncSummary' = NoSummary
    /\ UNCHANGED syncGit
    /\ UNCHANGED notSyncVars

\* the loop body for the next repository
SyncRepo ==
    /\ syncPc = "loop"
    /\ Len(syncResults) < Len(ManifestRepoList)
    /\ LET repo == ManifestRepoList[Len(syncResults) + 1]
           step == SyncStep(syncResults, repo, syncGit[repo])
       IN /\ syncResults' = step.results
          /\ syncPc' = IF step.aborted THEN "aborted" ELSE "loop"
    /\ UNCHANGED <<syncGit, syncFetch, syncSummary>>
    /\ UNCHANGED notSyncVars

\* the summary after the loop
SyncSummary ==
    /\ syncPc = "loop"
    /\ Len(syncResults) = Len(ManifestRepoList)
    /\ syncSummary' = [succeeded |-> CountResults(syncResults, TRUE),
                       failed |-> CountResults(syncResults, FALSE)]
    /\ syncPc' = "done"
    /\ UNCHANGED <<syncGit, syncFetch, syncResults>>
    /\ UNCHANGED notSyncVars

NextSync ==
    \/ SyncStart
    \/ SyncRepo
    \/ SyncSummary

SpecSync == InitSync /\ [][NextSync]_vars

\* C20: the batch is never aborted; when it is done, the results hold
\* every repository of the manifest once, in manifest order; a repository
\* that is not cloned or whose pull or fetch raised is recorded as failed
\* with its error, every other one as succeeded; and the two counts of the
\* summary add up to the number of repositories.
C20_BatchNeverAborts ==
    /\ syncPc # "aborted"
    /\ \A i \in 1..Len(syncResults) : syncResults[i].repo = ManifestRepoList[i]
    /\ syncPc = "done" =>
           /\ Len(syncResults) = Len(ManifestRepoList)
           /\ \A i \in 1..Len(syncResults) :
                 LET cond == syncGit[ManifestRepoList[i]]
                     res == syncResults[i]
                 IN /\ res.success = (cond.cloned /\ cond.error = <<>>)
                    /\ ~cond.cloned => res.error = <<NotClonedError>>
                    /\ (cond.cloned /\ cond.error # <<>>) =>
                           /\ res.error # <<>>
                           /\ Includes(cond.error[1], res.error[1])
           /\ syncSummary.succeeded + syncSummary.failed = Len(ManifestRepoList)

C20_Witness ==
    /\ syncPc = "done"
    /\ syncGit[RepoA] = [cloned |-> TRUE, error |-> <<<<"network", "unreachable">>>>]
    /\ syncGit[RepoB] = [cloned |-> TRUE, error |-> <<>>]
    /\ syncResults[1] = SyncResult(RepoA, FALSE, <<<<"network", "unreachable">>>>)
    /\ syncResults[2] = SyncResult(RepoB, TRUE, <<>>)
    /\ syncSummary = [succeeded |-> 1, failed |-> 1]

\* ===================================================== anchor body re-encoding
\* What a linked PR reads as when getLinkedPRInfo queries it: its state,
\* approval and checks.
SyncStatuses ==
    { [state |-> "open", approved |-> TRUE, checksPass |-> TRUE],
      [state |-> "open", approved |-> FALSE, checksPass |-> FALSE],
      [state |-> "closed", approved |-> FALSE, checksPass |-> TRUE],
      [state |-> "merged", approved |-> TRUE, checksPass |-> TRUE] }

\* the placeholder of getManifestPRInfo, with its empty url
PlaceholderWithUrl(repoName, number) ==
    [repoName |-> repoName, owner |-> "", repo |-> <<>>, number |-> number,
     url |-> <<>>, state |-> "closed", approved |-> FALSE,
     checksPass |-> FALSE, mergeable |-> FALSE]

\* the link names a pull request that the forge can answer for
LinkResolves(link) ==
    \/ RepoMapGet(link.repoName) = <<>>
    \/ <<"acme", link.repoName, link.number>> \in PRKeys

\* one element of the Promise.all of getManifestPRInfo
ManifestLinkedPR(link, status) ==
    IF RepoMapGet(link.repoName) = <<>>
    THEN PlaceholderWithUrl(link.repoName, link.number)
    ELSE CodecPR(link.repoName, link.number, status.state, status.approved,
                 status.checksPass)

\* the title of the anchor PR, which generateManifestPRBody receives
AnchorTitle == <<"T">>

\* the anchor bodies a re-encoding can meet
BodySyncBodies ==
    AnchorBodies
        \cup { Prose \o MarkerLine(<<"X", "#", "x">>),
               MarkerLine(<<"A", "#", "1">>) \o Prose }

InitBodySync ==
    /\ bsBody \in BodySyncBodies
    /\ bsPc = "idle"
    /\ bsLinked = <<>>
    /\ bsBefore = <<>>
    /\ MergeIdle
    /\ CodecIdle
    /\ ReviewIdle
    /\ StoreIdle
    /\ CreateIdle
    /\ SyncIdle
    /\ UrlIdle
    /\ FanIdle
    /\ RaceIdle
    /\ InfoIdle
    /\ RmwIdle

\* syncManifestPRBody is called
BodySyncStart ==
    /\ bsPc \in {"idle", "done", "threw"}
    /\ bsPc' = "read"
    /\ bsBefore' = bsBody
    /\ bsLinked' = <<>>
    /\ UNCHANGED bsBody
    /\ UNCHANGED notBodySyncVars

\* getManifestPRInfo: the body is decoded and every entry is resolved
BodySyncRead ==
    /\ bsPc = "read"
    /\ LET links == parseLinkedPRsFromBody(bsBody)
       IN /\ \A k \in 1..Len(links) : LinkResolves(links[k])
          /\ \E status \in [1..Len(links) -> SyncStatuses] :
                bsLinked' = [k \in 1..Len(links) |->
                                ManifestLinkedPR(links[k], status[k])]
    /\ bsPc' = "write"
    /\ UNCHANGED <<bsBody, bsBefore>>
    /\ UNCHANGED notBodySyncVars

\* a forge call of the run is rejected: a read of getManifestPRInfo, the
\* second getPullRequest, or updatePullRequestBody
BodySyncFails ==
    /\ bsPc \in {"read", "write"}
    /\ bsPc' = "threw"
    /\ UNCHANGED <<bsBody, bsLinked, bsBefore>>
    /\ UNCHANGED notBodySyncVars

\* generateManifestPRBody(pr.title, manifestPR.linkedPRs), then
\* updatePullRequestBody
BodySyncWrite ==
    /\ bsPc = "write"
    /\ bsBody' = generateManifestPRBody(AnchorTitle, bsLinked, <<>>)
    /\ bsPc' = "done"
    /\ UNCHANGED <<bsLinked, bsBefore>>
    /\ UNCHANGED notBodySyncVars

NextBodySync ==
    \/ BodySyncStart
    \/ BodySyncRead
    \/ BodySyncFails
    \/ BodySyncWrite

SpecBodySync == InitBodySync /\ [][NextBodySync]_vars

\* C21: the prose that was in the anchor body before a re-encoding is in
\* the body after it.
C21_ProseSurvivesSync ==
    (bsPc = "done" /\ Includes(bsBefore, Prose)) => Includes(bsBody, Prose)

\* ============================================================ parseGitHubUrl
\* "git@github.com:"
SshPrefix ==
    <<"g", "i", "t", "@", "g", "i", "t", "h", "u", "b", ".", "c", "o", "m",
      ":">>

\* "https://github.com/"
HttpsPrefix ==
    <<"h", "t", "t", "p", "s", ":", "/", "/", "g", "i", "t", "h", "u", "b",
      ".", "c", "o", "m", "/">>

\* "http://github.com/"
HttpPrefix ==
    <<"h", "t", "t", "p", ":", "/", "/", "g", "i", "t", "h", "u", "b", ".",
      "c", "o", "m", "/">>

\* ".git"
GitSuffix == <<".", "g", "i", "t">>

EndsWith(s, p) == Len(s) >= Len(p) /\ StartsWithAt(s, Len(s) - Len(p) + 1, p)

\* The match of ([^/]+)\/(.+?)(?:\.git)?$ on the text t that follows a
\* prefix: a list of zero (no match) or one [owner, repo].  The owner is
\* the run of characters before the first "/", the lazy group is the
\* shortest text that leaves nothing or ".git" before the end.
MatchOwnerRepo(t) ==
    LET slash == IndexOf(t, "/")
        rest == SubSeq(t, slash + 1, Len(t))
    IN IF slash <= 1 \/ rest = <<>> \/ IndexOf(rest, "\n") # 0
       THEN <<>>
       ELSE IF EndsWith(rest, GitSuffix) /\ Len(rest) > Len(GitSuffix)
       THEN <<[owner |-> SubSeq(t, 1, slash - 1),
               repo |-> SubSeq(rest, 1, Len(rest) - Len(GitSuffix))]>>
       ELSE <<[owner |-> SubSeq(t, 1, slash - 1), repo |-> rest]>>

\* url.match(/<prefix>([^/]+)\/(.+?)(?:\.git)?$/): the match starting at the
\* leftmost position of the url at which the whole pattern matches
MatchAfter(url, prefix) ==
    LET starts == { i \in 1..Len(url) :
                      /\ StartsWithAt(url, i, prefix)
                      /\ MatchOwnerRepo(SubSeq(url, i + Len(prefix), Len(url))) # <<>> }
    IN IF starts = {}
       THEN <<>>
       ELSE MatchOwnerRepo(SubSeq(url, SetMin(starts) + Len(prefix), Len(url)))

\* the alternation https?:// of the second pattern
HttpsMatch(url) ==
    LET starts(prefix) ==
            { i \in 1..Len(url) :
                /\ StartsWithAt(url, i, prefix)
                /\ MatchOwnerRepo(SubSeq(url, i + Len(prefix), Len(url))) # <<>> }
        s == starts(HttpsPrefix)
        p == starts(HttpPrefix)
    IN IF s \cup p = {} THEN <<>>
       ELSE IF SetMin(s \cup p) \in s THEN MatchAfter(url, HttpsPrefix)
       ELSE MatchAfter(url, HttpPrefix)

parseGitHubUrl(url) ==
    LET sshMatch == MatchAfter(url, SshPrefix)
        httpsMatch == HttpsMatch(url)
    IN IF sshMatch # <<>>
       THEN [raised |-> FALSE, owner |-> sshMatch[1].owner, repo |-> sshMatch[1].repo]
       ELSE IF httpsMatch # <<>>
       THEN [raised |-> FALSE, owner |-> httpsMatch[1].owner,
             repo |-> httpsMatch[1].repo]
       ELSE [raised |-> TRUE, owner |-> <<>>, repo |-> <<>>]

\* -------------------------------------------------------------------- inputs
UrlOwners == { <<"o">>, <<"a", "c", "m", "e">>, <<"a", "-", "b">> }

UrlRepos == { <<"r">>, <<"w", "s">>, <<"x", ".", "y">>, <<"g", "i", "t">>, <<"r", "-", "2">> }

UrlInput(kind, url, owner, repo) ==
    [kind |-> kind, url |-> url, owner |-> owner, repo |-> repo]

\* the SSH and the HTTPS form of a GitHub URL, with and without ".git"
GitHubUrls ==
    UNION { { UrlInput("ssh", SshPrefix \o o \o <<"/">> \o r \o x, o, r),
              UrlInput("https", HttpsPrefix \o o \o <<"/">> \o r \o x, o, r) } :
            o \in UrlOwners, r \in UrlRepos, x \in {<<>>, GitSuffix} }

\* "https://gitlab.com/"
GitLabPrefix ==
    <<"h", "t", "t", "p", "s", ":", "/", "/", "g", "i", "t", "l", "a", "b",
      ".", "c", "o", "m", "/">>

\* URLs of other hosts, and texts that are no URL
OtherUrls ==
    { UrlInput("other", u, <<>>, <<>>) :
        u \in { <<"n", "o", "t", "-", "a", "-", "u", "r", "l">>,
                GitLabPrefix \o <<"o", "/", "r">>,
                GitLabPrefix \o SshPrefix \o <<"o", "/", "r">>,
                GitLabPrefix \o <<"x", "?", "u", "=">> \o HttpsPrefix \o <<"o", "/", "r">>,
                <<>> } }

UrlInputs == GitHubUrls \cup OtherUrls

InitUrl ==
    /\ urlIn \in UrlInputs
    /\ urlOut = NoUrlResult
    /\ urlPc = "input"
    /\ MergeIdle
    /\ CodecIdle
    /\ ReviewIdle
    /\ StoreIdle
    /\ CreateIdle
    /\ SyncIdle
    /\ BodySyncIdle
    /\ FanIdle
    /\ RaceIdle
    /\ InfoIdle
    /\ RmwIdle

\* parseGitHubUrl is called on the URL
ParseUrl ==
    /\ urlPc = "input"
    /\ urlOut' = parseGitHubUrl(urlIn.url)
    /\ urlPc' = "parsed"
    /\ UNCHANGED urlIn
    /\ UNCHANGED notUrlVars

\* the next URL is taken
NextUrlInput ==
    /\ urlPc = "parsed"
    /\ urlIn' \in UrlInputs
    /\ urlOut' = NoUrlResult
    /\ urlPc' = "input"
    /\ UNCHANGED notUrlVars

NextUrl ==
    \/ ParseUrl
    \/ NextUrlInput

SpecUrl == InitUrl /\ [][NextUrl]_vars

\* C22: the SSH and the HTTPS form of a GitHub URL, with or without the
\* ".git" suffix, parse to the owner and repository they were built from
\* (so to the same pair, without the suffix), and every URL that is not a
\* github.com SSH or HTTPS URL raises.
C22_ParsesGitHubUrlsOnly ==
    urlPc = "parsed" =>
        /\ urlIn.kind \in {"ssh", "https"} =>
               /\ ~urlOut.raised
               /\ urlOut.owner = urlIn.owner
               /\ urlOut.repo = urlIn.repo
        /\ urlIn.kind = "other" => urlOut.raised

\* ==================================================== branch deletion failure
\* C23: a merge call whose merge succeeded and whose branch deletion then
\* failed counts as a success: a linked PR of such a call is on the merged
\* list at its place and the loop went on, and when it was the anchor PR's
\* call the run reports success.
C23_DeletionFailureSwallowed ==
    \A i \in 1..Len(mergeCalls) :
        (mergeCalls[i].ok /\ mergeCalls[i].branch = "failed") =>
            IF i <= Len(manifestPR.linkedPRs)
            THEN /\ Len(mergedPRs) >= i
                 /\ mergedPRs[i].repoName = manifestPR.linkedPRs[i].repoName
                 /\ mergedPRs[i].number = manifestPR.linkedPRs[i].number
                 /\ (pc = "done" /\ Len(mergeCalls) = i) => result.success
            ELSE pc = "done" /\ result.success

C23_Witness ==
    /\ pc = "done"
    /\ result.success
    /\ Len(mergeCalls) = 3
    /\ mergeCalls[1].branch = "failed"
    /\ mergeCalls[2].branch = "deleted"
    /\ mergeCalls[3].branch = "failed"
    /\ Len(mergedPRs) = 2

\* ===================================================== fan-out and merge loop
\* getLinkedPRInfo awaits three forge reads in turn: the pull request, its
\* reviews, the combined status of its head commit
QueryStages == <<"pr", "reviews", "checks">>

InFlight(q) == \E k \in 1..Len(QueryStages) : QueryStages[k] = q

Settled(q) == q \in {"fulfilled", "rejected"}

\* the callback of parsedLinks.map: a link whose repository is not in the
\* manifest returns its placeholder at once, the others call getLinkedPRInfo
StartQuery(inManifest) == IF inManifest THEN QueryStages[1] ELSE "fulfilled"

\* a read of the query returned: the next read is awaited, or the query is done
NextStage(q) ==
    IF q = QueryStages[Len(QueryStages)] THEN "fulfilled"
    ELSE QueryStages[(CHOOSE k \in 1..Len(QueryStages) : QueryStages[k] = q) + 1]

\* Promise.all: rejected as soon as one promise is rejected, fulfilled when
\* all are fulfilled; settled once, it stays as it is
PromiseAll(step, queries) ==
    IF step # "pending" THEN step
    ELSE IF \E i \in 1..Len(queries) : queries[i] = "rejected" THEN "rejected"
    ELSE IF \A i \in 1..Len(queries) : queries[i] = "fulfilled" THEN "fulfilled"
    ELSE "pending"

\* where the run goes when the await of the Promise.all is over
AfterStep(was, step, at) ==
    IF was # "pending" THEN at
    ELSE IF step = "fulfilled" THEN "gate"
    ELSE IF step = "rejected" THEN "threw"
    ELSE at

\* mutant: the loop issues the next merge call without awaiting the last
MayIssueMerge_NoAwait(inFlight) == TRUE

\* const merged = await mergePullRequest(...): the loop is suspended while
\* its merge call is in flight
MayIssueMerge(inFlight) == inFlight = {}

InitFanout ==
    /\ fanQuery = <<>>
    /\ fanStep = "idle"
    /\ fanPc = "idle"
    /\ fanInFlight = {}
    /\ fanIssued = 0
    /\ MergeIdle
    /\ CodecIdle
    /\ ReviewIdle
    /\ StoreIdle
    /\ CreateIdle
    /\ SyncIdle
    /\ BodySyncIdle
    /\ UrlIdle
    /\ RaceIdle
    /\ InfoIdle
    /\ RmwIdle

\* getManifestPRInfo reaches the Promise.all: every callback of the map runs
\* up to its first await
FanStart ==
    /\ fanPc \in {"idle", "done", "threw"}
    /\ \A i \in 1..Len(fanQuery) : Settled(fanQuery[i])
    /\ fanInFlight = {}
    /\ \E n \in 0..MaxQueries : \E inManifest \in [1..n -> BOOLEAN] :
          /\ fanQuery' = [i \in 1..n |-> StartQuery(inManifest[i])]
          /\ fanStep' = PromiseAll("pending", fanQuery')
          /\ fanPc' = AfterStep("pending", fanStep', "reading")
    /\ fanIssued' = 0
    /\ UNCHANGED fanInFlight
    /\ UNCHANGED notFanVars

\* a forge read of one query returns
QueryAdvances ==
    /\ \E i \in 1..Len(fanQuery) :
          /\ InFlight(fanQuery[i])
          /\ fanQuery' = [fanQuery EXCEPT ![i] = NextStage(fanQuery[i])]
    /\ fanStep' = PromiseAll(fanStep, fanQuery')
    /\ fanPc' = AfterStep(fanStep, fanStep', fanPc)
    /\ UNCHANGED <<fanInFlight, fanIssued>>
    /\ UNCHANGED notFanVars

\* a forge read of one query fails
QueryFails ==
    /\ \E i \in 1..Len(fanQuery) :
          /\ InFlight(fanQuery[i])
          /\ fanQuery' = [fanQuery EXCEPT ![i] = "rejected"]
    /\ fanStep' = PromiseAll(fanStep, fanQuery')
    /\ fanPc' = AfterStep(fanStep, fanStep', fanPc)
    /\ UNCHANGED <<fanInFlight, fanIssued>>
    /\ UNCHANGED notFanVars

\* mergeAllLinkedPRs looks at readyToMerge
FanGate ==
    /\ fanPc = "gate"
    /\ \E ready \in BOOLEAN : fanPc' = IF ready THEN "merging" ELSE "done"
    /\ UNCHANGED <<fanQuery, fanStep, fanInFlight, fanIssued>>
    /\ UNCHANGED notFanVars

\* the loop, and after it the anchor's merge, issues a merge call
IssueMerge ==
    /\ fanPc = "merging"
    /\ MayIssueMerge(fanInFlight)
    /\ fanIssued < Len(fanQuery) + 1
    /\ fanIssued' = fanIssued + 1
    /\ fanInFlight' = fanInFlight \cup {fanIssued + 1}
    /\ UNCHANGED <<fanQuery, fanStep, fanPc>>
    /\ UNCHANGED notFanVars

\* a merge call returns; a failure, or the anchor's merge, ends the run
MergeReturns ==
    /\ \E k \in fanInFlight : \E ok \in BOOLEAN :
          /\ fanInFlight' = fanInFlight \ {k}
          /\ fanPc' = IF fanPc = "merging" /\ (~ok \/ k = Len(fanQuery) + 1)
                      THEN "done"
                      ELSE fanPc
    /\ UNCHANGED <<fanQuery, fanStep, fanIssued>>
    /\ UNCHANGED notFanVars

NextFanout ==
    \/ FanStart
    \/ QueryAdvances
    \/ QueryFails
    \/ FanGate
    \/ IssueMerge
    \/ MergeReturns

SpecFanout == InitFanout /\ [][NextFanout]_vars

\* C24: at most one merge call is in flight at any time, and none is issued
\* from the fan-out: while a merge call is in flight the fan-out is over,
\* with every query fulfilled, and while the fan-out is pending no merge call
\* has been issued.
C24_OneMergeInFlight ==
    /\ Cardinality(fanInFlight) <= 1
    /\ fanInFlight # {} =>
           /\ fanStep = "fulfilled"
           /\ \A i \in 1..Len(fanQuery) : fanQuery[i] = "fulfilled"
           /\ fanInFlight = {fanIssued}
    /\ fanStep = "pending" => fanIssued = 0

C24_Witness ==
    /\ Len(fanQuery) = 2
    /\ fanIssued = 2
    /\ fanInFlight = {2}

\* C25: when a query of the fan-out fails, its siblings in flight stay in
\* flight, and the step is rejected only once every sibling query has settled.
C25_FailureWaitsForSiblings ==
    [][(fanStep = "pending" /\ fanStep' = "rejected") =>
          /\ \A i \in 1..Len(fanQuery) :
                (InFlight(fanQuery[i]) /\ fanQuery'[i] # "rejected") =>
                    fanQuery'[i] = fanQuery[i]
          /\ \A i \in 1..Len(fanQuery) : Settled(fanQuery'[i])]_vars

\* ============================================== concurrent createLinkedPRs
\* the branches an operator opens pull requests from
FeatureBranches == {"feat", "fix"}

\* the loop of createLinkedPRs moves on to the next repository or returns
RaceAdvance(o, info) ==
    [o EXCEPT !.queue = Tail(o.queue),
              !.found = <<>>,
              !.linked = Append(o.linked, info),
              !.pc = IF Tail(o.queue) = <<>> THEN "done" ELSE "lookup"]

InitRace ==
    /\ racePRs \in [{ ManifestRepoList[i] : i \in 1..Len(ManifestRepoList) }
                      -> InitialPRLists]
    /\ raceOps = [op \in Operators |-> NotStarted]
    /\ MergeIdle
    /\ CodecIdle
    /\ ReviewIdle
    /\ StoreIdle
    /\ CreateIdle
    /\ SyncIdle
    /\ BodySyncIdle
    /\ UrlIdle
    /\ FanIdle
    /\ InfoIdle
    /\ RmwIdle

\* an operator calls createLinkedPRs for a branch
RaceStart(op) ==
    /\ raceOps[op].pc = "idle"
    /\ \E b \in FeatureBranches :
          raceOps' = [raceOps EXCEPT ![op] =
                         [pc |-> "lookup", branch |-> b, queue |-> ManifestRepoList,
                          found |-> <<>>, seen |-> <<>>, linked |-> <<>>]]
    /\ UNCHANGED racePRs
    /\ UNCHANGED notRaceVars

\* findPRByBranch returns to the operator; seen keeps how many pull requests
\* the repository had when the forge answered
RaceLookup(op) ==
    /\ raceOps[op].pc = "lookup"
    /\ LET o == raceOps[op]
           r == Head(o.queue)
       IN raceOps' = [raceOps EXCEPT ![op] =
                         [o EXCEPT !.found = findPRByBranch(racePRs[r], o.branch),
                                   !.seen = Append(o.seen, Len(racePRs[r])),
                                   !.pc = "resolve"]]
    /\ UNCHANGED racePRs
    /\ UNCHANGED notRaceVars

\* an open pull request was found: its status is read
RaceExisting(op) ==
    /\ raceOps[op].pc = "resolve"
    /\ raceOps[op].found # <<>>
    /\ LET o == raceOps[op]
           r == Head(o.queue)
       IN \E readOk \in BOOLEAN :
             raceOps' = [raceOps EXCEPT ![op] =
                            IF readOk
                            THEN RaceAdvance(o, CreatedLinkedPR(r, o.found[1], racePRs[r]))
                            ELSE [o EXCEPT !.pc = "failed"]]
    /\ UNCHANGED racePRs
    /\ UNCHANGED notRaceVars

\* none was found: createPullRequest, then the new pull request is read
RaceCreate(op) ==
    /\ raceOps[op].pc = "resolve"
    /\ raceOps[op].found = <<>>
    /\ LET o == raceOps[op]
           r == Head(o.queue)
           number == Len(racePRs[r]) + 1
           list == <<PullRequest(number, o.branch, "open", op, FALSE)>> \o racePRs[r]
       IN /\ number <= MaxPRs
          /\ racePRs' = [racePRs EXCEPT ![r] = list]
          /\ \E readOk \in BOOLEAN :
                raceOps' = [raceOps EXCEPT ![op] =
                               IF readOk
                               THEN RaceAdvance(o, CreatedLinkedPR(r, number, list))
                               ELSE [o EXCEPT !.pc = "failed"]]
    /\ UNCHANGED notRaceVars

NextRace ==
    \/ \E op \in Operators : RaceStart(op)
    \/ \E op \in Operators : RaceLookup(op)
    \/ \E op \in Operators : RaceExisting(op)
    \/ \E op \in Operators : RaceCreate(op)

SpecRace == InitRace /\ [][NextRace]_vars

\* the places in a repository's list of two open pull requests of one branch
Duplicates(list) ==
    { p \in (1..Len(list)) \X (1..Len(list)) :
        /\ list[p[1]].number < list[p[2]].number
        /\ list[p[1]].head = list[p[2]].head
        /\ list[p[1]].state = "open"
        /\ list[p[2]].state = "open" }

\* the index of repository r in the list the operators walk
RepoIndex(r) == CHOOSE i \in 1..Len(ManifestRepoList) : ManifestRepoList[i] = r

\* C26: the lookup and the creation are not atomic.  Two open pull requests
\* of one branch in one repository exist only when the invocations
\* interleaved: the operator that created the later one had its lookup
\* answered before the earlier one was created.
C26_DuplicatesOnlyWhenInterleaved ==
    \A r \in DOMAIN racePRs : \A p \in Duplicates(racePRs[r]) :
        LET first == racePRs[r][p[1]]
            second == racePRs[r][p[2]]
        IN /\ second.by \in Operators
           /\ Len(raceOps[second.by].seen) >= RepoIndex(r)
           /\ raceOps[second.by].seen[RepoIndex(r)] < first.number

\* two operators have each created an open pull request of the same branch
C26_Witness ==
    \E r \in DOMAIN racePRs : \E p \in Duplicates(racePRs[r]) :
        /\ racePRs[r][p[1]].by \in Operators
        /\ racePRs[r][p[2]].by \in Operators
        /\ racePRs[r][p[1]].by # racePRs[r][p[2]].by
        /\ \A op \in Operators : raceOps[op].pc = "done"

\* ============================================================ one marker line
\* the positions of body at which a marker line begins
MarkerLinesOf(body) == { i \in 1..Len(body) : StartsWithAt(body, i, MarkerPrefix) }

\* C27: the text generated for any title, list and extra body holds exactly
\* one marker line; it is the last line, after the status table, and lists
\* the repoName#number pairs in input order; the decoder's result is what
\* that line decodes to.
C27_OneMarkerLineAfterTable ==
    (codecPc = "decoded" /\ codecIn.kind = "generate") =>
        LET line == MarkerLine(PrLinks(codecIn.linkedPRs))
        IN /\ EndsWith(codecBody, line)
           /\ MarkerLinesOf(codecBody) = {Len(codecBody) - Len(line) + 1}
           /\ codecOut = parseLinkedPRsFromBody(line)

\* ================================================= what createLinkedPRs returns
\* C28: createLinkedPRs returns one LinkedPR per input repository, in input
\* order, and at its return every entry carries the number of a pull request
\* of the branch and the state and approval the forge holds for it.
C28_OneReadEntryPerRepo ==
    crReturned =>
        LET repos == withChanges(gitRepos)
        IN /\ Len(crLinked) = Len(repos)
           /\ \A k \in 1..Len(repos) : crLinked[k].repoName = repos[k]
           /\ crPc = "record" =>
                  \A k \in 1..Len(repos) :
                      \E i \in 1..Len(prList[repos[k]]) :
                         LET pr == prList[repos[k]][i]
                         IN /\ pr.number = crLinked[k].number
                            /\ pr.head = crBranch
                            /\ pr.state = crLinked[k].state
                            /\ pr.approved = crLinked[k].approved

\* returned: the approved pull request found for the first repository and
\* the one just created for the second
C28_Witness ==
    /\ crPc = "record"
    /\ crReturned
    /\ Len(crLinked) = 2
    /\ crLinked[1].approved
    /\ crCreates = <<crLinked[2].repoName>>

\* ================================================== status of one linked PR
\* the pull-request records a forge answer can hold, whatever the raw state
\* next to a set merged flag
RawPulls == ForgePRStates \cup { [state |-> "open", merged |-> TRUE] }

\* the forge's answers to the reads of one linked PR and of the anchor PR
InfoInputs ==
    [pr : RawPulls, reviews : ReviewLists, checks : StatusStates,
     mergeable : Mergeables, anchor : RawPulls]

InitInfo ==
    /\ infoIn \in InfoInputs
    /\ infoOut = <<>>
    /\ infoManifest = <<>>
    /\ infoPc = "input"
    /\ MergeIdle
    /\ CodecIdle
    /\ ReviewIdle
    /\ StoreIdle
    /\ CreateIdle
    /\ SyncIdle
    /\ BodySyncIdle
    /\ UrlIdle
    /\ FanIdle
    /\ RaceIdle
    /\ RmwIdle

\* getLinkedPRInfo for the linked PR
InfoLinked ==
    /\ infoPc = "input"
    /\ infoOut' = getLinkedPRInfo(RepoInfoOf(RepoA).owner, RepoInfoOf(RepoA).repo,
                                  1, RepoA, infoIn.pr, infoIn.reviews,
                                  infoIn.checks, infoIn.mergeable)
    /\ infoPc' = "linked"
    /\ UNCHANGED <<infoIn, infoManifest>>
    /\ UNCHANGED notInfoVars

\* getManifestPRInfo computes the anchor's state and readyToMerge
InfoAggregate ==
    /\ infoPc = "linked"
    /\ infoManifest' = ManifestPRInfo(infoIn.anchor, <<infoOut>>)
    /\ infoPc' = "done"
    /\ UNCHANGED <<infoIn, infoOut>>
    /\ UNCHANGED notInfoVars

\* the next set of forge answers
InfoNext ==
    /\ infoPc = "done"
    /\ infoIn' \in InfoInputs
    /\ infoOut' = <<>>
    /\ infoManifest' = <<>>
    /\ infoPc' = "input"
    /\ UNCHANGED notInfoVars

NextInfo ==
    \/ InfoLinked
    \/ InfoAggregate
    \/ InfoNext

SpecInfo == InitInfo /\ [][NextInfo]_vars

\* C29: the mergeable flag of a linked PR is true only when the forge
\* reported mergeable = true; null gives false, and a PR whose flag is
\* false makes the aggregate not ready.
C29_MergeableFailClosed ==
    /\ infoPc \in {"linked", "done"} =>
           infoOut.mergeable = (infoIn.mergeable = <<TRUE>>)
    /\ (infoPc = "done" /\ infoIn.mergeable # <<TRUE>>) =>
           ~infoManifest.readyToMerge

\* everything but the mergeability, which the forge has not computed, is ready
C29_Witness ==
    /\ infoPc = "done"
    /\ infoIn.mergeable = <<>>
    /\ infoOut.state = "open"
    /\ infoOut.approved
    /\ infoOut.checksPass
    /\ infoManifest.state = "open"
    /\ ~infoManifest.readyToMerge

\* C30: the state of a linked PR and of the anchor PR is "merged" whenever
\* the merged flag is set, whatever the raw state, and the raw state
\* otherwise; a merged PR is never "open".
C30_MergedFlagWins ==
    /\ infoPc \in {"linked", "done"} =>
           /\ infoOut.state = IF infoIn.pr.merged THEN "merged" ELSE infoIn.pr.state
           /\ infoIn.pr.merged => infoOut.state # "open"
    /\ infoPc = "done" =>
           /\ infoManifest.state =
                  IF infoIn.anchor.merged THEN "merged" ELSE infoIn.anchor.state
           /\ infoIn.anchor.merged => infoManifest.state # "open"

C30_Witness ==
    /\ infoPc = "done"
    /\ infoIn.pr = [state |-> "open", merged |-> TRUE]
    /\ infoIn.anchor = [state |-> "closed", merged |-> TRUE]
    /\ infoOut.state = "merged"
    /\ infoManifest.state = "merged"

\* ==================================================== default-branch exclusion
\* the cloned repositories that are on their own default branch
OnOwnDefault(git) ==
    { r \in ManifestRepos : git[r].cloned /\ git[r].branch = DefaultBranch(r) }

\* the cloned repositories that are on a feature branch with commits ahead
OnFeatureAhead(git) ==
    { r \in ManifestRepos :
        git[r].cloned /\ git[r].branch # DefaultBranch(r) /\ git[r].ahead }

\* C31: in a creation run over repositories that are all on one branch, a
\* repository on its own default branch gets no push and no PR, and the run
\* goes on for the repositories for which that branch is a feature branch:
\* it does not end refused as "on the default branch".
C31_DefaultBranchRepoExcluded ==
    (/\ crPc = "done"
     /\ Cardinality(uniqueBranches(gitRepos)) = 1
     /\ OnOwnDefault(gitRepos) # {})
        => /\ \A r \in OnOwnDefault(gitRepos) :
                 /\ \A k \in 1..Len(crPushes) : crPushes[k] # r
                 /\ \A k \in 1..Len(crCreates) : crCreates[k] # r
           /\ OnFeatureAhead(gitRepos) # {} => crOutcome # "defaultBranch"

\* ============================================================ push before PRs
\* C32: create calls are issued only for cloned repositories with commits
\* ahead, and only while every such repository has its branch on the remote;
\* a run that ends because a branch is missing on the remote or because a
\* push failed has created no PR and has left the state file as it was.
C32_CreateOnlyAfterPush ==
    /\ \A k \in 1..Len(crCreates) :
           /\ gitRepos[crCreates[k]].cloned
           /\ gitRepos[crCreates[k]].ahead
    /\ (crCreates # <<>> \/ crPc \in {"lookup", "resolve", "record"}) =>
           \A r \in ManifestRepos :
               (gitRepos[r].cloned /\ gitRepos[r].ahead) => gitRepos[r].remote
    /\ crOutcome \in {"needsPush", "pushFailed"} =>
           /\ crPc = "done"
           /\ crCreates = <<>>
           /\ stateFile = crFileBefore

\* both branches were pushed in this run, then both PRs created
C32_Witness ==
    /\ crPc = "done"
    /\ crOutcome = "created"
    /\ crPushes = <<RepoA, RepoB>>
    /\ crCreates = <<RepoA, RepoB>>

\* ===================================================== re-run after a partial merge
\* C33: once a run has merged a linked PR and then failed, every later run
\* on the anchor PR issues no merge call and, when its reads succeed, ends
\* rejected at the gate with nothing merged: no PR is merged twice and the
\* partially merged set is never completed.
C33_NoRepairAfterPartialMerge ==
    priorPartial =>
        /\ mergeCalls = <<>>
        /\ pc # "merging"
        /\ pc = "done" =>
               /\ ~result.success
               /\ result.mergedPRs = <<>>
               /\ ~manifestPR.readyToMerge

\* a later run has been rejected at the gate because of the merged linked PR
C33_Witness ==
    /\ priorPartial
    /\ pc = "done"
    /\ ~result.success
    /\ result.failedPR # <<>>
    /\ result.failedPR[1].error = "PR not open"
    /\ \E i \in 1..Len(linkedPRs) : linkedPRs[i].state = "merged"

\* ======================================================== anchor without marker
\* C34: when the run read the anchor PR as open and its body holds no
\* marker, the linked set is empty and readyToMerge is true; the run issues
\* one merge call, for the anchor PR, and when mergePullRequest reports
\* success the run returns success with the "manifest" entry alone.
C34_NoMarkerMergesAnchorAlone ==
    (/\ pc \in {"merging", "done"}
     /\ ~HasMarkerPrefix(anchorBody)
     /\ PRState(anchorPR) = "open")
        => /\ parsedLinks = <<>>
           /\ manifestPR.linkedPRs = <<>>
           /\ manifestPR.readyToMerge
           /\ pc = "done" =>
                  /\ Len(mergeCalls) = 1
                  /\ mergeCalls[1].key = AnchorKey
                  /\ (mergeCalls[1].ok /\ mergeCalls[1].branch # "unread") =>
                         /\ result.success
                         /\ result.mergedPRs =
                                <<[repoName |-> ManifestLiteral,
                                   number |-> ManifestPRNumber]>>
                         /\ result.failedPR = <<>>

C34_Witness ==
    /\ pc = "done"
    /\ anchorBody = Prose
    /\ Len(mergeCalls) = 1
    /\ mergeCalls[1].ok
    /\ result.success
    /\ Len(result.mergedPRs) = 1
    /\ pulls[AnchorKey].merged

\* ================================================= entries outside the manifest
\* the places of the marker entries whose repository is not in the manifest
Unlisted(links) == { i \in 1..Len(links) : RepoMapGet(links[i].repoName) = <<>> }

\* C35: a marker entry whose repository is not in the manifest is fetched as
\* the placeholder (closed, not approved, checks not passing, not
\* mergeable, no owner and no repository to query); a run over such an
\* anchor is not ready, issues no merge call, and reports the entry with
\* "Not approved" unless an earlier entry is not ready.
C35_UnlistedEntryBlocks ==
    /\ \A i \in Unlisted(parsedLinks) :
           i <= Len(linkedPRs) =>
               linkedPRs[i] = [repoName |-> parsedLinks[i].repoName, owner |-> "",
                               repo |-> <<>>, number |-> parsedLinks[i].number,
                               state |-> "closed", approved |-> FALSE,
                               checksPass |-> FALSE, mergeable |-> FALSE]
    /\ Unlisted(parsedLinks) # {} =>
           /\ mergeCalls = <<>>
           /\ pc # "merging"
           /\ pc = "done" =>
                  LET i == SetMin(Unlisted(parsedLinks))
                  IN /\ ~manifestPR.readyToMerge
                     /\ ~result.success
                     /\ (\A j \in 1..(i - 1) : ~NotReady(manifestPR.linkedPRs[j])) =>
                            result.failedPR =
                                <<[repoName |-> parsedLinks[i].repoName,
                                   number |-> parsedLinks[i].number,
                                   error |-> "Not approved"]>>

\* a ready linked PR, then an entry outside the manifest, which is reported
C35_Witness ==
    /\ pc = "done"
    /\ Len(parsedLinks) = 2
    /\ Unlisted(parsedLinks) = {2}
    /\ ~NotReady(linkedPRs[1])
    /\ result.failedPR # <<>>
    /\ result.failedPR[1].repoName = RepoX
    /\ result.failedPR[1].error = "Not approved"

\* ========================================================= one gate snapshot
\* C36: every merge call of a run targets a PR of the snapshot the gate
\* was computed from, and that PR was ready in the snapshot: open, approved,
\* checks passing, mergeable (the anchor PR: open).  The snapshot is the one
\* fetched before the first merge call, whatever the forge holds by then.
C36_MergeCallsFollowGateSnapshot ==
    mergeCalls # <<>> =>
        /\ manifestPR.linkedPRs = linkedPRs
        /\ manifestPR.readyToMerge
        /\ manifestPR.state = "open"
        /\ PRState(anchorPR) = "open"
        /\ \A i \in 1..Len(mergeCalls) :
               IF i <= Len(linkedPRs)
               THEN /\ mergeCalls[i].key =
                           <<linkedPRs[i].owner, linkedPRs[i].repo, linkedPRs[i].number>>
                    /\ linkedPRs[i].state = "open"
                    /\ linkedPRs[i].approved
                    /\ linkedPRs[i].checksPass
                    /\ linkedPRs[i].mergeable
               ELSE mergeCalls[i].key = AnchorKey

\* a linked PR was closed on the forge after the gate; the merge call was
\* issued all the same, on the snapshot that shows it open, and failed
C36_Witness ==
    /\ pc = "done"
    /\ Len(mergeCalls) = 1
    /\ Len(linkedPRs) >= 1
    /\ ~mergeCalls[1].ok
    /\ linkedPRs[1].state = "open"
    /\ pulls[mergeCalls[1].key].state = "closed"
    /\ ~pulls[mergeCalls[1].key].merged

\* ======================================================= state-store updates
Callers == {"c1", "c2"}

\* linkBranchToManifestPR on the loaded document: the two assignments, which
\* raise a TypeError when the document is null or has no branchToPR
linkBranchToManifestPR(state, branch, manifestPRNumber) ==
    IF state.type # "object" \/ state.branchToPR = <<>>
    THEN [raised |-> TRUE, value |-> state]
    ELSE [raised |-> FALSE,
          value |-> ObjectDoc(<<MapPut(state.branchToPR[1], branch, manifestPRNumber)>>,
                              state.prLinks, <<manifestPRNumber>>)]

\* saveLinkedPRs on the loaded document
saveLinkedPRs(state, manifestPRNumber, links) ==
    IF state.type # "object" \/ state.prLinks = <<>>
    THEN [raised |-> TRUE, value |-> state]
    ELSE [raised |-> FALSE,
          value |-> ObjectDoc(state.branchToPR,
                              <<MapPut(state.prLinks[1], manifestPRNumber, links)>>,
                              state.currentManifestPR)]

\* the calls a caller can make
StoreCalls ==
    { [kind |-> "link", branch |-> b, number |-> n, links |-> <<>>] :
          b \in Branches, n \in {2, 3} }
    \cup { [kind |-> "saveLinks", branch |-> "", number |-> 2, links |-> l] :
               l \in { <<>>, <<CachedLink>> } }

\* the in-memory update of a call
Modify(call, state) ==
    IF call.kind = "link"
    THEN linkBranchToManifestPR(state, call.branch, call.number)
    ELSE saveLinkedPRs(state, call.number, call.links)

\* a caller that has made no call
NoCall ==
    [pc |-> "idle", call |-> [kind |-> "none"], state |-> DefaultState,
     savesAtLoad |-> 0]

\* the state files the callers can find: none, not JSON, null, {}, an
\* object with branchToPR alone, and well-formed documents
RmwInitialFiles ==
    { MissingFile,
      InvalidFile,
      JsonStringify(NullDoc),
      JsonStringify(ObjectDoc(<<>>, <<>>, <<>>)),
      JsonStringify(ObjectDoc(<<EmptyMap>>, <<>>, <<>>)),
      JsonStringify(DefaultState),
      JsonStringify(ObjectDoc(<<[b \in {"main"} |-> 2]>>,
                              <<[n \in {2} |-> <<CachedLink>>]>>, <<2>>)) }

InitRmw ==
    /\ rmwFile \in RmwInitialFiles
    /\ rmwDir = (rmwFile # MissingFile)
    /\ rmwFile0 = rmwFile
    /\ rmwOps = [c \in Callers |-> NoCall]
    /\ rmwSaves = <<>>
    /\ MergeIdle
    /\ CodecIdle
    /\ ReviewIdle
    /\ StoreIdle
    /\ CreateIdle
    /\ SyncIdle
    /\ BodySyncIdle
    /\ UrlIdle
    /\ FanIdle
    /\ RaceIdle
    /\ InfoIdle

\* a caller calls linkBranchToManifestPR or saveLinkedPRs
RmwCall(c) ==
    /\ rmwOps[c].pc = "idle"
    /\ \E call \in StoreCalls :
          rmwOps' = [rmwOps EXCEPT ![c] = [NoCall EXCEPT !.pc = "load", !.call = call]]
    /\ UNCHANGED <<rmwFile, rmwDir, rmwFile0, rmwSaves>>
    /\ UNCHANGED notRmwVars

\* loadState returns and the document is updated in memory
RmwLoad(c) ==
    /\ rmwOps[c].pc = "load"
    /\ LET modified == Modify(rmwOps[c].call, loadState(rmwFile).value)
       IN rmwOps' = [rmwOps EXCEPT ![c].state = modified.value,
                                   ![c].savesAtLoad = Len(rmwSaves),
                                   ![c].pc = IF modified.raised THEN "raised"
                                             ELSE "save"]
    /\ UNCHANGED <<rmwFile, rmwDir, rmwFile0, rmwSaves>>
    /\ UNCHANGED notRmwVars

\* saveState: mkdir, then the file is overwritten
RmwSave(c) ==
    /\ rmwOps[c].pc = "save"
    /\ rmwDir' = Mkdir(rmwDir)
    /\ rmwFile' = Overwrite(rmwFile, JsonStringify(rmwOps[c].state))
    /\ rmwSaves' = Append(rmwSaves, c)
    /\ rmwOps' = [rmwOps EXCEPT ![c].pc = "done"]
    /\ UNCHANGED rmwFile0
    /\ UNCHANGED notRmwVars

NextRmw ==
    \/ \E c \in Callers : RmwCall(c)
    \/ \E c \in Callers : RmwLoad(c)
    \/ \E c \in Callers : RmwSave(c)

SpecRmw == InitRmw /\ [][NextRmw]_vars

\* C37: the updates are unguarded read-modify-write sequences.  When two
\* calls ran one after the other, the file holds both updates applied in
\* that order to the document that was there, nothing else changed; when
\* the second saver had loaded before the first save, the file holds the
\* second update applied to the old document: the first update is lost.
C37_LaterSaveWins ==
    (Len(rmwSaves) = 2) =>
        LET first == rmwOps[rmwSaves[1]]
            last == rmwOps[rmwSaves[2]]
            base == loadState(rmwFile0).value
        IN IF last.savesAtLoad = 1
           THEN rmwFile = JsonStringify(
                    Modify(last.call, Modify(first.call, base).value).value)
           ELSE rmwFile = JsonStringify(Modify(last.call, base).value)

\* interleaved: the branch linked by the first saver is not in the file
C37_Witness ==
    /\ Len(rmwSaves) = 2
    /\ rmwOps[rmwSaves[2]].savesAtLoad = 0
    /\ rmwOps[rmwSaves[1]].call.kind = "link"
    /\ rmwOps[rmwSaves[1]].call.branch = "feat"
    /\ rmwOps[rmwSaves[2]].call.kind = "saveLinks"
    /\ "feat" \notin DOMAIN rmwFile.json.branchToPR[1]
    /\ rmwFile.json.prLinks[1][2] = <<CachedLink>>

\* C38: whatever the state file holds, the document loadState returns has
\* both maps, so linkBranchToManifestPR and saveLinkedPRs never raise on it.
C38_LoadedDocumentHasMaps ==
    \A c \in Callers :
        rmwOps[c].pc \in {"save", "done", "raised"} =>
            /\ rmwOps[c].pc # "raised"
            /\ rmwOps[c].state.type = "object"
            /\ rmwOps[c].state.branchToPR # <<>>
            /\ rmwOps[c].state.prLinks # <<>>

\* ================================================ re-run after a failed creation
\* the state file records the branch
BranchRecorded(file, branch) ==
    LET state == loadState(file).value
    IN /\ state.type = "object"
       /\ state.branchToPR # <<>>
       /\ branch \in DOMAIN state.branchToPR[1]

\* C39: a run whose createLinkedPRs failed after creating PRs leaves the
\* state file as it was and its PRs on the forge; the next run creates PRs
\* only in repositories without an open PR of the branch (a PR left behind
\* and still open is found, not created again) and, once its
\* createLinkedPRs has returned, records the branch in the state file.
C39_RerunCompletesFailedCreation ==
    /\ (crPc = "done" /\ ~crReturned /\ crOutcome = "failed") =>
           /\ stateFile = crFileBefore
           /\ \A k \in 1..Len(crCreates) :
                  \E i \in 1..Len(prList[crCreates[k]]) :
                      /\ prList[crCreates[k]][i].head = crBranch
                      /\ prList[crCreates[k]][i].by = "run"
    /\ crOrphans # {} =>
           /\ \A k \in 1..Len(crCreates) :
                  \A i \in 2..Len(prList[crCreates[k]]) :
                      prList[crCreates[k]][i].head = crBranch =>
                          prList[crCreates[k]][i].state # "open"
           /\ (crPc = "done" /\ crReturned) =>
                  /\ crOutcome = "created"
                  /\ BranchRecorded(stateFile, crBranch)

\* ===================================================== sync keeps the link list
\* the status a linked PR of the written body was given
StatusOf(p) == [state |-> p.state, approved |-> p.approved, checksPass |-> p.checksPass]

\* the body a second syncManifestPRBody writes when the forge answers as it
\* did for the first
SyncAgain(body, linked) ==
    LET links == parseLinkedPRsFromBody(body)
    IN IF Len(links) # Len(linked)
       THEN <<>>
       ELSE generateManifestPRBody(AnchorTitle,
                [k \in 1..Len(links) |-> ManifestLinkedPR(links[k], StatusOf(linked[k]))],
                <<>>)

\* C40: the (repoName, number) pairs decoded from the anchor body after a
\* sync are those decoded before it, in the same order, entries outside the
\* manifest included; a second sync against an unchanged forge writes the
\* same body.
C40_SyncKeepsLinkList ==
    bsPc = "done" =>
        /\ Pairs(parseLinkedPRsFromBody(bsBody)) = Pairs(parseLinkedPRsFromBody(bsBefore))
        /\ SyncAgain(bsBody, bsLinked) = bsBody

\* a body linking a manifest repository and one outside the manifest
C40_Witness ==
    /\ bsPc = "done"
    /\ bsBefore = Prose \o MarkerLine(PrLinks(<<[repoName |-> RepoA, number |-> 1],
                                                [repoName |-> RepoX, number |-> 3]>>))
    /\ bsBody # bsBefore
    /\ Pairs(parseLinkedPRsFromBody(bsBody)) =
           <<[repoName |-> RepoA, number |-> 1], [repoName |-> RepoX, number |-> 3]>>

====
